---- MODULE Spec2Model ----
(***************************************************************************)
(* A model of the build-command execution and output interpretation core   *)
(* of softpack-mcp: the session registry (session_manager.py), the         *)
(* session-aware command builder and command runner, the streaming         *)
(* install (stream multiplexer), the install-digest extractors, the        *)
(* build-log collector and the `info` output parser (spack_service.py).    *)
(***************************************************************************)
EXTENDS Integers, Sequences, FiniteSets, TLC

(***************************************************************************)
(* Bounds of the model.                                                    *)
(***************************************************************************)
MaxOut == 3          \* lines the child writes to stdout, at most
MaxErr == 1          \* lines the child writes to stderr, at most
MaxTicks == 2        \* poll timeouts counted (the clock saturates here)
MaxBaseLen == 3      \* tokens of a base argument vector, at most
MaxTextLines == 3    \* lines of an install output text, at most
MaxInfoLines == 3    \* lines of an `info` text, at most
MaxVariantLines == 3 \* continuation lines of a "Variants:" section, at most
MaxLogLines == 2     \* lines of the text given to the build-log collector, at most
MaxInstallOut == 2   \* stdout lines of an install child with install output, at most
MaxDepLines == 4     \* lines after the package line in a text of dependency sections, at most
MaxFrameLines == 3   \* lines after the package line in a text that is parsed twice, at most
MaxValOut == 2       \* stdout lines of a validation child, at most
MaxValErr == 1       \* stderr lines of a validation child, at most

VARIABLES
    \* ---- SessionManager
    sessions,        \* self.sessions: the ids registered (id -> /tmp/<id>)
    disk,            \* the ids whose /tmp/<id> directory with repos.yaml exists
    \* ---- one _run_spack_command call
    cmdPc,           \* "idle", "running", "done", "raised"
    cmdCall,         \* the call: session id, base vector, argv given to the runner
    cmdResult,       \* the runner's return value
    \* ---- one install_package_stream run
    pc,              \* position of the generator
    streamSid,       \* its session_id argument
    streamCmd,       \* cmd, the argument vector it spawns
    events,          \* the events yielded to the consumer, in order
    queue,           \* output_queue
    all_output,      \* all_output
    child,           \* the child process: what it writes, whether it ends
    rd,              \* per channel: lines the reader task has taken from the pipe
    task,            \* per channel: state of the reader task
    ticks,           \* time elapsed since the spawn, in poll timeouts
    \* ---- the install-digest extractors applied to one output text
    digText,         \* output: stdout and stderr of an install
    digPc,           \* which extractors have run
    digPrimary,      \* result of _extract_install_digest
    digRobust,       \* result of _extract_install_digest_robust
    digInstall,      \* install_digest as install_package reports it
    \* ---- one get_package_info call
    infoPc,          \* position in get_package_info
    infoReq,         \* package_name, version and the result of the info command
    infoLines,       \* lines
    lineNo,          \* i, the line cursor (counted from 0)
    acc,             \* the parser's local accumulators
    infoResult,      \* the SpackPackage returned
    recognised,      \* the cursor positions where a section branch was taken
    consumed,        \* the cursor positions a section read as its content
    passes,          \* the passes of the loop of line 1260 made so far
    \* ---- one _collect_build_logs_from_output call and the filesystem under /tmp
    collPc,          \* "idle", "scan", "glob", "read", "returned", "raised"
    full_output,     \* the text given to the collector
    fsDirs,          \* what each staging or build directory holds
    fsRanking,       \* the staging directories by modification time, newest first
    candidate_logs,  \* the candidate log files, as the strings of the Path objects
    collNext,        \* the index of the next candidate the read loop visits
    logs,            \* the entries collected so far
    collResult,      \* the value returned: None or the aggregated text
    \* ---- a second get_package_info call, on an edited copy of the first text
    edit,            \* what distinguishes the second text from the first
    earlier,         \* the SpackPackage returned for the first text
    \* ---- one GitService.create_pull_request call
    gitPc,           \* the git command awaited, or "idle", "returned"
    gitReq,          \* package_name, recipe_name, session_id and the names derived
    executed_commands, \* executed_commands
    gitRun,          \* the commands _run_command has run, with their results
    cloneDir,        \* whether clone_dir exists
    gitResult,       \* the GitPullRequestResult returned
    \* ---- one validate_package_stream call
    valPc,           \* position in validate_package_stream
    valReq,          \* its arguments
    valEvents,       \* the results yielded to the consumer, in order
    valQueue,        \* output_queue
    valChild,        \* the validation child: what it writes and its exit code
    valRd,           \* per channel: lines the reader task has taken from the pipe
    valTask,         \* per channel: state of the reader task
    \* ---- one install of the same request by install_package and by install_package_stream
    argReq,          \* package_name, version, variants, session_id
    argInstall,      \* the vector install_package hands to the runner
    argStream,       \* the vector install_package_stream hands to create_subprocess_exec
    installResult,   \* the OperationResult of install_package run on the stream's child
    \* ---- one get_package_checksums call, or the versions query of get_package_versions
    queryPc,         \* "idle", "called", "ran", "reran", "returned", "raised"
    queryReq,        \* which of the two, package_name and session_id
    runs,            \* the calls of _run_spack_command made, with what they returned
    queryResult      \* what the call goes on with: the failure returned, or the output parsed

sessVars == <<sessions, disk>>
cmdVars == <<cmdPc, cmdCall, cmdResult>>
streamVars == <<pc, streamSid, streamCmd, events, queue, all_output, child, rd, task, ticks>>
digestVars == <<digText, digPc, digPrimary, digRobust, digInstall>>
frameVars == <<edit, earlier>>
gitVars == <<gitPc, gitReq, executed_commands, gitRun, cloneDir, gitResult>>
valVars == <<valPc, valReq, valEvents, valQueue, valChild, valRd, valTask>>
queryVars == <<queryPc, queryReq, runs, queryResult>>
callVars == <<argReq, argInstall, argStream, installResult, queryVars>>
otherVars == <<frameVars, gitVars, valVars, callVars>>
serviceVars == <<sessVars, cmdVars, streamVars, otherVars>>
infoVars ==
    <<infoPc, infoReq, infoLines, lineNo, acc, infoResult, recognised, consumed, passes>>
logVars == <<collPc, full_output, fsDirs, fsRanking, candidate_logs, collNext, logs, collResult>>
pureVars == <<digestVars, infoVars, logVars, otherVars>>
vars == <<sessions, disk, cmdPc, cmdCall, cmdResult, pc, streamSid, streamCmd,
          events, queue, all_output, child, rd, task, ticks,
          digText, digPc, digPrimary, digRobust, digInstall,
          infoPc, infoReq, infoLines, lineNo, acc, infoResult, recognised, consumed, passes,
          collPc, full_output, fsDirs, fsRanking, candidate_logs, collNext, logs, collResult,
          edit, earlier, gitPc, gitReq, executed_commands, gitRun, cloneDir, gitResult,
          valPc, valReq, valEvents, valQueue, valChild, valRd, valTask,
          argReq, argInstall, argStream, installResult,
          queryPc, queryReq, runs, queryResult>>

Range(f) == {f[x] : x \in DOMAIN f}
Max(S) == CHOOSE x \in S : \A y \in S : y <= x
Min(S) == CHOOSE x \in S : \A y \in S : x <= y

\* Optional values: None is the empty sequence, a value x is <<x>>.
None == <<>>
Some(x) == <<x>>

(***************************************************************************)
(* Python's str operations, on strings character by character              *)
(***************************************************************************)
At(s, i) == SubSeq(s, i, i)
From(s, i) == SubSeq(s, i, Len(s))
IsSpace(c) == c \in {" ", "\t", "\n", "\r"}
AlnumChars ==
    {"a", "b", "c", "d", "e", "f", "g", "h", "i", "j", "k", "l", "m", "n", "o", "p", "q",
     "r", "s", "t", "u", "v", "w", "x", "y", "z", "A", "B", "C", "D", "E", "F", "G", "H",
     "I", "J", "K", "L", "M", "N", "O", "P", "Q", "R", "S", "T", "U", "V", "W", "X", "Y",
     "Z", "0", "1", "2", "3", "4", "5", "6", "7", "8", "9"}

\* s.startswith(p)
StartsWith(s, p) == Len(s) >= Len(p) /\ SubSeq(s, 1, Len(p)) = p

\* The first index at or after i whose character is not whitespace (Len(s)+1 if none).
SkipSpace(s, i) == Min({j \in i..Len(s) : ~IsSpace(At(s, j))} \cup {Len(s) + 1})

\* The first index at or after i whose character is whitespace (Len(s)+1 if none).
SkipNonSpace(s, i) == Min({j \in i..Len(s) : IsSpace(At(s, j))} \cup {Len(s) + 1})

\* The last index at or before i whose character is not whitespace (0 if none).
SkipSpaceBack(s, i) == Max({j \in 1..i : ~IsSpace(At(s, j))} \cup {0})

\* s.strip(), s.rstrip()
RStrip(s) == SubSeq(s, 1, SkipSpaceBack(s, Len(s)))
Strip(s) == LET t == RStrip(s) IN From(t, SkipSpace(t, 1))

\* s.find(p) + 1: the first index where p occurs in s, 0 when it does not.
Find(s, p) ==
    LET I == {i \in 1..(Len(s) - Len(p) + 1) : SubSeq(s, i, i + Len(p) - 1) = p} IN
    IF I = {} THEN 0 ELSE Min(I)
Contains(s, p) == Find(s, p) # 0

\* s.split(sep), sep one or more characters: empty fields are kept.
RECURSIVE SplitOn(_, _)
SplitOn(s, sep) ==
    LET i == Find(s, sep) IN
    IF i = 0 THEN <<s>>
    ELSE <<SubSeq(s, 1, i - 1)>> \o SplitOn(From(s, i + Len(sep)), sep)

\* s.split(sep, 1)
SplitOnce(s, sep) ==
    LET i == Find(s, sep) IN
    IF i = 0 THEN <<s>> ELSE <<SubSeq(s, 1, i - 1), From(s, i + Len(sep))>>

\* s.split(): the maximal runs of non-whitespace characters.
RECURSIVE SplitWs(_)
SplitWs(s) ==
    LET i == SkipSpace(s, 1) IN
    IF i > Len(s) THEN <<>>
    ELSE LET j == SkipNonSpace(s, i) IN <<SubSeq(s, i, j - 1)>> \o SplitWs(From(s, j))

\* s.replace(old, new)
RECURSIVE Replace(_, _, _)
Replace(s, old, new) ==
    LET i == Find(s, old) IN
    IF i = 0 THEN s
    ELSE SubSeq(s, 1, i - 1) \o new \o Replace(From(s, i + Len(old)), old, new)

\* s.isalnum()
IsAlnum(s) == Len(s) > 0 /\ \A i \in 1..Len(s) : At(s, i) \in AlnumChars

\* "\n".join(lines)
RECURSIVE JoinLines(_)
JoinLines(lines) ==
    IF lines = <<>> THEN ""
    ELSE IF Len(lines) = 1 THEN lines[1]
    ELSE lines[1] \o "\n" \o JoinLines(Tail(lines))

(***************************************************************************)
(* SessionManager                                                          *)
(***************************************************************************)
SessionIds == {"s1", "s2"}
NoSession == ""                  \* session_id None (or empty): `if session_id` is false

\* get_session_dir: the registry entry, else the directory recovered from the
\* filesystem (and registered), else None.
NoneDir == "None"
GetSessionDir(reg, dsk, sid) ==
    IF sid \in reg THEN "/tmp/" \o sid
    ELSE IF sid \in dsk THEN "/tmp/" \o sid
    ELSE NoneDir

SessionResolvable(reg, dsk, sid) == GetSessionDir(reg, dsk, sid) # NoneDir

RegistryAfterGet(reg, dsk, sid) ==
    IF sid \in reg THEN reg
    ELSE IF sid \in dsk THEN reg \cup {sid}
    ELSE reg

\* get_singularity_command_prefix: the fixed sandbox prefix of a resolved session.
SingularityPrefix(sid) ==
    << "singularity", "run",
       "--bind", "/usr/bin/zsh",
       "--bind", "/mnt/data",
       "--bind", "/tmp/" \o sid \o "/repos.yaml:/home/ubuntu/.spack/repos.yaml",
       "--bind", "/tmp/" \o sid \o "/packages:/home/ubuntu/r-spack-recipe-builder/packages",
       "/home/ubuntu/spack.sif" >>

\* create_session: a fresh uuid; the directory tree is made and the id registered.
CreateSession ==
    /\ \E sid \in SessionIds \ (sessions \cup disk) :
          /\ sessions' = sessions \cup {sid}
          /\ disk' = disk \cup {sid}
    /\ UNCHANGED <<cmdVars, streamVars>>
    /\ UNCHANGED pureVars

\* delete_session: false for an unresolvable id; else the tree is removed, the
\* registry entry deleted and true returned.  shutil.rmtree is called with
\* ignore_errors=True (line 122): a tree it could not remove stays where it is.
DeleteSession ==
    /\ \E sid \in SessionIds :
          IF SessionResolvable(sessions, disk, sid)
          THEN /\ sessions' = sessions \ {sid}
               /\ disk' \in {disk \ {sid}, disk}
          ELSE UNCHANGED <<sessions, disk>>
    /\ UNCHANGED <<cmdVars, streamVars>>
    /\ UNCHANGED pureVars

(***************************************************************************)
(* Command runner and session-aware command builder                        *)
(***************************************************************************)
SpackCmd == "spack"              \* str(self.spack_cmd), settings.spack_executable
BaseTokens == {SpackCmd, "info", "zlib"}
BaseVectors == UNION {[1..n -> BaseTokens] : n \in 1..MaxBaseLen}
SessionArgs == SessionIds \cup {NoSession}

\* _run_command_base: what it returns for each way the child can go.
\* The timeout arguments of the callers (lines 144, 1559)
Timeouts == {300, 600}

\* Captured output is bytes; text is what bytes.decode("utf-8") makes of it.
\* 255 is a byte no UTF-8 text contains.
ByteChar(b) ==
    CASE b = 10 -> "\n" [] b = 101 -> "e" [] b = 111 -> "o" [] b = 114 -> "r"
      [] b = 116 -> "t" [] b = 117 -> "u"
Decodable(bs) == \A k \in 1..Len(bs) : bs[k] < 128
RECURSIVE DecodeUtf8(_)
DecodeUtf8(bs) == IF bs = <<>> THEN "" ELSE ByteChar(Head(bs)) \o DecodeUtf8(Tail(bs))

\* str(e) of the UnicodeDecodeError
DecodeErrorText(bs) ==
    "'utf-8' codec can't decode byte 0xff in position "
        \o ToString(Min({k \in 1..Len(bs) : bs[k] >= 128}) - 1) \o ": invalid start byte"

\* What the child and the operating system can do with one command.
CapturedBytes == {<<>>, <<111, 117, 116, 10>>, <<101, 114, 114, 255>>}
ReturnCodes == {0, 1, -9}
NoOutcome == [kind |-> "none", text |-> "", rc |-> 0, stdout |-> <<>>, stderr |-> <<>>]
RunnerOutcomes ==
    [kind : {"spawn_error"},
     text : {"[Errno 2] No such file or directory: 'spack'", ""},
     rc : {0}, stdout : {<<>>}, stderr : {<<>>}]
    \cup [kind : {"timeout"}, text : {""}, rc : {0}, stdout : {<<>>}, stderr : {<<>>}]
    \cup [kind : {"exit"}, text : {""}, rc : ReturnCodes,
          stdout : CapturedBytes, stderr : CapturedBytes]

\* Lines 91-96: the result of a child that ended
CompletedResult(outcome) ==
    [returncode |-> outcome.rc,
     stdout |-> DecodeUtf8(outcome.stdout),
     stderr |-> DecodeUtf8(outcome.stderr),
     success |-> outcome.rc = 0]

\* Lines 104-119: the result of a call that timed out or met an exception
FailureResult(text) == [returncode |-> -1, stdout |-> "", stderr |-> text, success |-> FALSE]

\* Lines 80-83 and 106-111
TimedOutResult(timeout) ==
    FailureResult("Command timed out after " \o ToString(timeout) \o " seconds")

\* Mutant: every child that ends counts as a success.
RunCommandBaseTrusting(outcome, timeout) ==
    CASE outcome.kind = "timeout" -> TimedOutResult(timeout)
      [] outcome.kind = "spawn_error" -> FailureResult(outcome.text)
      [] outcome.kind = "exit" ->
            IF ~Decodable(outcome.stdout) THEN FailureResult(DecodeErrorText(outcome.stdout))
            ELSE IF ~Decodable(outcome.stderr) THEN FailureResult(DecodeErrorText(outcome.stderr))
            ELSE [CompletedResult(outcome) EXCEPT !.success = TRUE]

\* _run_command_base, lines 72-119
RunCommandBase(outcome, timeout) ==
    CASE outcome.kind = "timeout" -> TimedOutResult(timeout)
      [] outcome.kind = "spawn_error" -> FailureResult(outcome.text)
      [] outcome.kind = "exit" ->
            IF ~Decodable(outcome.stdout) THEN FailureResult(DecodeErrorText(outcome.stdout))
            ELSE IF ~Decodable(outcome.stderr) THEN FailureResult(DecodeErrorText(outcome.stderr))
            ELSE CompletedResult(outcome)

\* Mutant: the tool's path is tested before the session, so a direct invocation
\* loses its first token too.
BuildCommandDropsDirect(sid, command) ==
    IF command[1] = SpackCmd
    THEN (IF sid # NoSession THEN SingularityPrefix(sid) ELSE <<>>) \o Tail(command)
    ELSE (IF sid # NoSession THEN SingularityPrefix(sid) ELSE <<>>) \o command

\* Mutant: the whole base vector is appended, the tool's own path included.
BuildCommandKeepsTool(sid, command) ==
    IF sid # NoSession
    THEN SingularityPrefix(sid) \o command
    ELSE command

\* _run_spack_command, lines 160-167: the vector handed to the runner.
BuildCommand(sid, command) ==
    IF sid # NoSession
    THEN IF command[1] = SpackCmd
         THEN SingularityPrefix(sid) \o Tail(command)
         ELSE SingularityPrefix(sid) \o command
    ELSE command

\* _run_spack_command up to the await of the runner: an unresolvable session id
\* raises ValueError (re-raised), else the runner is entered with the vector.
NoCall ==
    [sid |-> NoSession, base |-> <<>>, timeout |-> 0, ran |-> FALSE, argv |-> <<>>,
     outcome |-> NoOutcome]
NoResult == [returncode |-> 0, stdout |-> "", stderr |-> "", success |-> FALSE]

\* Mutant: the failed lookup is swallowed and the command goes ahead.
NeverRaisesValueError(reg, dsk, sid) == FALSE

RaisesValueError(reg, dsk, sid) == sid # NoSession /\ ~SessionResolvable(reg, dsk, sid)

\* The call of _run_spack_command with one of the given commands and timeouts,
\* lines 159-172, up to the await of the runner.
SpackCommandCall(commands, timeouts) ==
    /\ cmdPc = "idle"
    /\ \E sid \in SessionArgs, command \in commands, timeout \in timeouts :
          IF RaisesValueError(sessions, disk, sid)
          THEN /\ cmdPc' = "raised"
               /\ cmdCall' = [sid |-> sid, base |-> command, timeout |-> timeout,
                              ran |-> FALSE, argv |-> <<>>, outcome |-> NoOutcome]
               /\ UNCHANGED sessions
          ELSE /\ cmdPc' = "running"
               /\ cmdCall' = [sid |-> sid, base |-> command, timeout |-> timeout,
                              ran |-> TRUE, argv |-> BuildCommand(sid, command),
                              outcome |-> NoOutcome]
               /\ sessions' = IF sid # NoSession
                              THEN RegistryAfterGet(sessions, disk, sid)
                              ELSE sessions
    /\ UNCHANGED <<disk, cmdResult, streamVars>>
    /\ UNCHANGED pureVars

\* A command issued while no streaming install is in progress.
RunSpackCommand ==
    /\ pc = "idle"
    /\ SpackCommandCall(BaseVectors, Timeouts)

\* The runner returns: the child ended, timed out, or could not be spawned.
RunCommandReturns ==
    /\ cmdPc = "running"
    /\ \E outcome \in RunnerOutcomes :
          /\ cmdCall' = [cmdCall EXCEPT !.outcome = outcome]
          /\ cmdResult' = RunCommandBase(outcome, cmdCall.timeout)
    /\ cmdPc' = "done"
    /\ UNCHANGED <<sessVars, streamVars>>
    /\ UNCHANGED pureVars

(***************************************************************************)
(* The install-digest extractors                                           *)
(***************************************************************************)
NoDigest == "None"               \* the extractors' None
InstallMarker == "[+]"           \* the literal \[\+\] of the patterns

\* Lines 187 and 244: output.replace("\r\n", "\n").replace("\r", "\n")
NormalizeNewlines(output) == Replace(Replace(output, "\r\n", "\n"), "\r", "\n")

\* \[\+\]\s+ at index p: the index of the first character after the whitespace,
\* 0 when the marker, the whitespace or a following character is missing.
MarkerAt(s, p) ==
    IF p + 2 <= Len(s) /\ SubSeq(s, p, p + 2) = InstallMarker
    THEN LET q == SkipSpace(s, p + 3) IN IF q > p + 3 /\ q <= Len(s) THEN q ELSE 0
    ELSE 0

\* Line 194, \[\+\]\s+[^\s]+/([^/\s]+) tried at index p: the greedy [^\s]+ gives
\* back to the last "/" that has a character before it and a non-"/" after it.
\* The result is <<start, end>> of group 1, or <<0, 0>> for no match.
PrimaryMatchAt(s, p) ==
    LET q == MarkerAt(s, p) IN
    IF q = 0 THEN <<0, 0>>
    ELSE LET e == SkipNonSpace(s, q) - 1
             J == {j \in (q + 1)..(e - 1) : At(s, j) = "/" /\ At(s, j + 1) # "/"}
         IN IF J = {} THEN <<0, 0>>
            ELSE LET j == Max(J)
                     K == {k \in (j + 1)..e : At(s, k) = "/"}
                 IN <<j + 1, IF K = {} THEN e ELSE Min(K) - 1>>

\* Lines 249-253, \[\+\]\s+([^\s]+) with or without the closing $ (re.MULTILINE),
\* tried at index p: <<start, end>> of group 1, or <<0, 0>>.
RobustMatchAt(s, p, anchored) ==
    LET q == MarkerAt(s, p) IN
    IF q = 0 THEN <<0, 0>>
    ELSE LET e == SkipNonSpace(s, q) - 1 IN
         IF anchored /\ e < Len(s) /\ At(s, e + 1) # "\n" THEN <<0, 0>> ELSE <<q, e>>

\* re.finditer: the group-1 texts of the non-overlapping matches, left to right.
RECURSIVE PrimaryMatches(_, _)
PrimaryMatches(s, p) ==
    LET P == {q \in p..Len(s) : PrimaryMatchAt(s, q)[1] # 0} IN
    IF P = {} THEN <<>>
    ELSE LET m == PrimaryMatchAt(s, Min(P)) IN
         <<SubSeq(s, m[1], m[2])>> \o PrimaryMatches(s, m[2] + 1)

RECURSIVE RobustMatches(_, _, _)
RobustMatches(s, p, anchored) ==
    LET P == {q \in p..Len(s) : RobustMatchAt(s, q, anchored)[1] # 0} IN
    IF P = {} THEN <<>>
    ELSE LET m == RobustMatchAt(s, Min(P), anchored) IN
         <<SubSeq(s, m[1], m[2])>> \o RobustMatches(s, m[2] + 1, anchored)

\* Mutant: the first occurrence is taken.
FirstMatch(matches) == matches[1]

\* Lines 199 and 260: matches[-1]
SelectMatch(matches) == matches[Len(matches)]

\* Mutant: tokens longer than 32 characters pass.
ValidDigestAtLeast32(digest) == Len(digest) >= 32 /\ IsAlnum(digest)

\* Lines 215 and 281: len(digest) == 32 and digest.isalnum()
ValidDigest(digest) == Len(digest) = 32 /\ IsAlnum(digest)

\* Lines 208-223 and 274-289: the last "-"-separated field of the package name,
\* None when there is no "-" or the field is not a valid digest.
DigestOfPackageName(package_name) ==
    LET parts == SplitOn(package_name, "-") IN
    IF Len(parts) > 1
    THEN LET digest == Strip(parts[Len(parts)]) IN
         IF ValidDigest(digest) THEN digest ELSE NoDigest
    ELSE NoDigest

\* _extract_install_digest
ExtractInstallDigest(output) ==
    LET matches == PrimaryMatches(NormalizeNewlines(output), 1) IN
    IF matches # <<>>
    THEN DigestOfPackageName(Strip(SelectMatch(matches)))
    ELSE NoDigest

\* Lines 256-289, one pattern: the digest found with it, or None.
RobustPattern(output, anchored) ==
    LET matches == RobustMatches(output, 1, anchored) IN
    IF matches # <<>>
    THEN LET full_path == Strip(SelectMatch(matches))
             segments == SplitOn(full_path, "/")
             package_name == IF Contains(full_path, "/")
                             THEN Strip(segments[Len(segments)])
                             ELSE Strip(full_path)
         IN DigestOfPackageName(package_name)
    ELSE NoDigest

\* Lines 247-254: pattern 1 ends in $, patterns 2 and 3 do not.
RobustPatterns == <<TRUE, FALSE, FALSE>>

\* _extract_install_digest_robust: the first pattern that yields a digest.
RECURSIVE RobustFrom(_, _)
RobustFrom(output, i) ==
    IF i > Len(RobustPatterns) THEN NoDigest
    ELSE LET digest == RobustPattern(output, RobustPatterns[i]) IN
         IF digest # NoDigest THEN digest ELSE RobustFrom(output, i + 1)

ExtractInstallDigestRobust(output) == RobustFrom(NormalizeNewlines(output), 1)

\* Lines 469-472 and 609-612: the primary extractor, then the robust one.
InstallDigest(output) ==
    LET install_digest == ExtractInstallDigest(output) IN
    IF install_digest = NoDigest THEN ExtractInstallDigestRobust(output) ELSE install_digest

\* Install output: lines in the tool's shapes and near misses of them.
TokA == "aaaaaaaaaaaaaaaaaaaaaaaaaaaaaaaa"
TokB == "bbbbbbbbbbbbbbbbbbbbbbbbbbbbbbbb"
Tok7 == "abcdefg"
Tok33 == "ccccccccccccccccccccccccccccccccc"
TokSym == "ddddddddddddddd_dddddddddddddddd"
MarkerLines ==
    { "[+] /opt/spack/pkgA-1.0-" \o TokA,
      "[+] /opt/spack/pkgB-2.0-" \o TokB,
      "[+] /opt/spack/pkgC-3.0-" \o Tok7,
      "[+] /opt/spack/pkgD-4.0-" \o Tok33,
      "[+] /opt/spack/pkgE-5.0-" \o TokSym }
OtherLines ==
    { "==> Installing pkgB-2.0-" \o TokB,
      "[+] /opt/spack/pkgC-3.0-" \o Tok7 \o " (external)",
      "[+]",
      "[+] pkgA-1.0-" \o TokA,
      "[+] /opt/spack/" \o TokA \o "\r" }
OutputLines == MarkerLines \cup OtherLines
OutputTexts == {JoinLines(ls) : ls \in UNION {[1..n -> OutputLines] : n \in 0..MaxTextLines}}

(***************************************************************************)
(* _collect_build_logs_from_output: the build logs of a failed install     *)
(***************************************************************************)
LogName == "spack-build-out.txt"

\* sep.join(parts)
RECURSIVE Join(_, _)
Join(parts, sep) ==
    IF parts = <<>> THEN ""
    ELSE IF Len(parts) = 1 THEN parts[1]
    ELSE parts[1] \o sep \o Join(Tail(parts), sep)

\* s[i:].startswith(p)
LitAt(s, i, p) == i + Len(p) - 1 <= Len(s) /\ SubSeq(s, i, i + Len(p) - 1) = p

\* The end of the longest run of [^/\s] characters that starts at i: the first
\* index at or after i holding "/" or whitespace (Len(s)+1 if none).
SegEnd(s, i) ==
    Min({j \in i..Len(s) : At(s, j) = "/" \/ IsSpace(At(s, j))} \cup {Len(s) + 1})

\* re.match of /tmp/[^/\s]*<mid>[^/\s]+<suffix> at index i of s: the index after
\* the match, 0 when there is none.  The runs are greedy, and a shorter run never
\* helps, because what follows a run starts with "/".
MatchEnd(s, i, mid, suffix) ==
    IF ~LitAt(s, i, "/tmp/") THEN 0
    ELSE LET a == SegEnd(s, i + 5) IN
         IF ~LitAt(s, a, mid) THEN 0
         ELSE LET b == a + Len(mid)
                  c == SegEnd(s, b)
              IN IF c = b \/ ~LitAt(s, c, suffix) THEN 0 ELSE c + Len(suffix)

\* re.findall(pattern, s): the matches from left to right, each search starting
\* where the previous match ended.
RECURSIVE FindAllFrom(_, _, _, _)
FindAllFrom(s, pos, mid, suffix) ==
    LET I == {i \in pos..Len(s) : MatchEnd(s, i, mid, suffix) # 0} IN
    IF I = {} THEN <<>>
    ELSE LET i == Min(I)
             e == MatchEnd(s, i, mid, suffix)
         IN <<SubSeq(s, i, e - 1)>> \o FindAllFrom(s, e, mid, suffix)

\* Lines 312-313, 317-318 and 322-323: the three patterns.
ExplicitLogs(text) == FindAllFrom(text, 1, "/spack-stage/spack-stage-", "/" \o LogName)
StageMatches(text) == FindAllFrom(text, 1, "/spack-stage/spack-stage-", "")
BuildMatches(text) == FindAllFrom(text, 1, "/spack-build-", "")

\* str(Path(s)) of an absolute path: empty and "." components are dropped.
PathStr(s) ==
    "/" \o Join(SelectSeq(SplitOn(s, "/"), LAMBDA c : c # "" /\ c # "."), "/")

\* The directories the model's filesystem may hold under /tmp.
StageDirs ==
    {"/tmp/u/spack-stage/spack-stage-a", "/tmp/u/spack-stage/spack-stage-b",
     "/tmp/spack-stage/spack-stage-a", "/tmp/u/spack-build-c"}

\* What a directory holds: it is not there ("nodir"), it has no log ("nolog"), its
\* log is readable ("log"), its log cannot be read ("unreadable"), or it is there
\* at the first access and gone at the next ("vanishing").
DirStates == {"nodir", "nolog", "log", "unreadable", "vanishing"}
FileSystems == [StageDirs -> DirStates]
NoFiles == [d \in StageDirs |-> "nodir"]


\* glob.glob("/tmp/*/spack-stage/spack-stage-*"), line 331: does d match?
GlobMatches(d) ==
    LET c == SplitOn(d, "/") IN
    /\ Len(c) = 5
    /\ c[1] = "" /\ c[2] = "tmp"
    /\ c[3] # "" /\ ~StartsWith(c[3], ".")
    /\ c[4] = "spack-stage"
    /\ StartsWith(c[5], "spack-stage-")

\* The modification-time rankings of the directories the pattern matches, newest
\* first.
GlobDirs == {d \in StageDirs : GlobMatches(d)}
Rankings == {r \in [1..Cardinality(GlobDirs) -> GlobDirs] : Range(r) = GlobDirs}

\* Whose install made a staging directory: the path does not say (the component
\* after /tmp is the user's name, the same for every session), so this is known
\* to the installs only.  The streaming install of the model runs in s1.
StreamSession == "s1"
StageOwner(d) == IF d = "/tmp/u/spack-stage/spack-stage-a" THEN "s1" ELSE "s2"

\* Mutant: the search keeps the staging directories of the failing session only.
GlobStagesOfSession(fs, ranking) ==
    SelectSeq(ranking, LAMBDA d : fs[d] # "nodir" /\ StageOwner(d) = StreamSession)

\* Lines 331-333: the directories glob lists, in the order of the sort.
GlobStages(fs, ranking) == SelectSeq(ranking, LAMBDA d : fs[d] # "nodir")

\* Line 333: Path(x).stat() of a directory that is gone raises.
StatRaises(fs, ranking) == \E k \in 1..Len(GlobStages(fs, ranking)) : fs[GlobStages(fs, ranking)[k]] = "vanishing"

\* Lines 333-334: sorted by modification time, newest first; the first 5.
RecentLimit == 5
RecentStages(fs, ranking) ==
    LET sorted == GlobStages(fs, ranking)
    IN SubSeq(sorted, 1, Min({RecentLimit, Len(sorted)}))

\* Lines 341-350: the file paths in order, each string once.
RECURSIVE Unseen(_, _)
Unseen(file_paths, seen) ==
    IF file_paths = <<>> THEN <<>>
    ELSE IF Head(file_paths) \in seen THEN Unseen(Tail(file_paths), seen)
    ELSE <<Head(file_paths)>> \o Unseen(Tail(file_paths), seen \cup {Head(file_paths)})

\* Line 347: str(Path(stage_path) / "spack-build-out.txt")
LogOfStage(stage_path) == PathStr(stage_path \o "/" \o LogName)

\* Lines 338-350: candidate_logs, as the strings of its Path objects.
CandidateLogs(log_file_paths, stage_paths) ==
    LET derived == [k \in 1..Len(stage_paths) |-> LogOfStage(stage_paths[k])]
        unique == Unseen(log_file_paths \o derived, {})
    IN [k \in 1..Len(unique) |-> PathStr(unique[k])]

\* Lines 308-324: the paths found in the text.
StagePaths(text) == StageMatches(text) \o BuildMatches(text)
NoPathsFound(text) == StagePaths(text) = <<>> /\ ExplicitLogs(text) = <<>>

\* The state of the file a candidate names.
ParentDir(log_file) == SubSeq(log_file, 1, Len(log_file) - Len(LogName) - 1)
FileState(fs, log_file) ==
    IF ParentDir(log_file) \in StageDirs THEN fs[ParentDir(log_file)] ELSE "nodir"

\* Line 354: log_file.exists()
Exists(fs, log_file) == FileState(fs, log_file) \in {"log", "unreadable", "vanishing"}

\* What the build wrote to the log of a directory.
LogContent(log_file) == "error in " \o ParentDir(log_file) \o "\n"

\* str(e) of the OSError read_text raises.
ReadError(fs, log_file) ==
    IF FileState(fs, log_file) = "unreadable"
    THEN "[Errno 13] Permission denied: '" \o log_file \o "'"
    ELSE "[Errno 2] No such file or directory: '" \o log_file \o "'"

\* Lines 357 and 360: the entry of a log that was read, of one that was not.
LogEntry(log_file, content) == "===== " \o log_file \o " =====\n" \o content
ErrorEntry(log_file, e) == "===== " \o log_file \o " (error reading: " \o e \o ") =====\n"

\* Lines 354-364, one candidate: what is appended to logs.
ReadCandidate(fs, log_file) ==
    IF Exists(fs, log_file)
    THEN IF FileState(fs, log_file) = "log"
         THEN <<LogEntry(log_file, LogContent(log_file))>>
         ELSE <<ErrorEntry(log_file, ReadError(fs, log_file))>>
    ELSE <<>>

RECURSIVE ReadCandidates(_, _)
ReadCandidates(fs, candidates) ==
    IF candidates = <<>> THEN <<>>
    ELSE ReadCandidate(fs, Head(candidates)) \o ReadCandidates(fs, Tail(candidates))

\* Lines 366-371: the value returned.
Collected(entries) == IF entries = <<>> THEN None ELSE Some(Join(entries, "\n\n"))

\* The whole function, lines 294-374.
CollectBuildLogsFromOutput(text, fs, ranking) ==
    IF NoPathsFound(text)
    THEN IF StatRaises(fs, ranking) THEN None
         ELSE Collected(ReadCandidates(fs, CandidateLogs(<<>>, RecentStages(fs, ranking))))
    ELSE Collected(ReadCandidates(fs, CandidateLogs(ExplicitLogs(text), StagePaths(text))))

\* Mutant: the handler lets the exception leave the function.
ExceptHandlerReraises == [pc |-> "raised", result |-> None]

\* Lines 372-374: except Exception: the warning is logged and None returned.
ExceptHandler == [pc |-> "returned", result |-> None]

IdleLogs ==
    /\ collPc = "idle"
    /\ full_output = ""
    /\ fsDirs = NoFiles
    /\ fsRanking = CHOOSE r \in Rankings : TRUE
    /\ candidate_logs = <<>>
    /\ collNext = 1
    /\ logs = <<>>
    /\ collResult = None

\* Lines 308-327 and 338-350: the text is searched; with paths found the
\* candidate list is built from them.
CollectorScan ==
    /\ collPc = "scan"
    /\ IF NoPathsFound(full_output)
       THEN /\ collPc' = "glob"
            /\ UNCHANGED candidate_logs
       ELSE /\ candidate_logs' = CandidateLogs(ExplicitLogs(full_output), StagePaths(full_output))
            /\ collPc' = "read"
    /\ UNCHANGED <<full_output, fsDirs, fsRanking, collNext, logs, collResult>>
    /\ UNCHANGED <<serviceVars, digestVars, infoVars>>

\* Lines 328-350: no path in the text; the candidates are the logs of the most
\* recent staging directories on disk.
CollectorFallback ==
    /\ collPc = "glob"
    /\ ~StatRaises(fsDirs, fsRanking)
    /\ candidate_logs' = CandidateLogs(<<>>, RecentStages(fsDirs, fsRanking))
    /\ collPc' = "read"
    /\ UNCHANGED <<full_output, fsDirs, fsRanking, collNext, logs, collResult>>
    /\ UNCHANGED <<serviceVars, digestVars, infoVars>>

\* Line 333: a directory glob listed is gone when the sort asks for its
\* modification time; the exception reaches the handler of line 372.
CollectorStatRaises ==
    /\ collPc = "glob"
    /\ StatRaises(fsDirs, fsRanking)
    /\ collPc' = ExceptHandler.pc
    /\ collResult' = ExceptHandler.result
    /\ UNCHANGED <<full_output, fsDirs, fsRanking, candidate_logs, collNext, logs>>
    /\ UNCHANGED <<serviceVars, digestVars, infoVars>>

\* Lines 353-364: one turn of the read loop.
CollectorRead ==
    /\ collPc = "read"
    /\ collNext <= Len(candidate_logs)
    /\ logs' = logs \o ReadCandidate(fsDirs, candidate_logs[collNext])
    /\ collNext' = collNext + 1
    /\ UNCHANGED <<collPc, full_output, fsDirs, fsRanking, candidate_logs, collResult>>
    /\ UNCHANGED <<serviceVars, digestVars, infoVars>>

\* Lines 366-371: the loop is over and the function returns.
CollectorReturn ==
    /\ collPc = "read"
    /\ collNext > Len(candidate_logs)
    /\ collResult' = Collected(logs)
    /\ collPc' = "returned"
    /\ UNCHANGED <<full_output, fsDirs, fsRanking, candidate_logs, collNext, logs>>
    /\ UNCHANGED <<serviceVars, digestVars, infoVars>>

\* The output texts of failed installs the collector is given: lines with an
\* explicit log path, a staging path, a build path, no path, and an explicit log
\* path whose user component is empty.
LogLineCatalogue ==
    <<"==> Error: see /tmp/u/spack-stage/spack-stage-a/spack-build-out.txt",
      "stage /tmp/u/spack-stage/spack-stage-b",
      "build /tmp/u/spack-build-c",
      "==> Error: ProcessError",
      "log: /tmp//spack-stage/spack-stage-a/spack-build-out.txt">>

LogLineSeqs == UNION {[1..n -> 1..Len(LogLineCatalogue)] : n \in 0..MaxLogLines}
LogTexts == {JoinLines([k \in DOMAIN ls |-> LogLineCatalogue[ls[k]]]) : ls \in LogLineSeqs}

(***************************************************************************)
(* install_package_stream                                                  *)
(***************************************************************************)
Channels == {"stdout", "stderr"}
StreamType(ch) == IF ch = "stdout" THEN "output" ELSE "error"   \* read_stream's stream_type
BadBytes == "\\xff"              \* a line that line.decode("utf-8") rejects
LineName(ch, i) == ch \o ToString(i)

\* What a child may write to a channel: up to max lines, at most one undecodable.
ChannelOutputs(ch, max) ==
    UNION {{[i \in 1..n |-> IF i = b THEN BadBytes ELSE LineName(ch, i)] : b \in 0..n} : n \in 0..max}

\* How a child may end: it closes its output channels or keeps them open (or a
\* descendant does), and it exits with a code or never does.
ChildEnds ==
    {[closes |-> c, exits |-> TRUE, rc |-> r] : c \in BOOLEAN, r \in {0, 1}}
    \cup {[closes |-> c, exits |-> FALSE, rc |-> 0] : c \in BOOLEAN}

Children ==
    {[stdout |-> o, stderr |-> e, closes |-> x.closes, exits |-> x.exits, rc |-> x.rc] :
        o \in ChannelOutputs("stdout", MaxOut), e \in ChannelOutputs("stderr", MaxErr),
        x \in ChildEnds}

NoChild == [stdout |-> <<>>, stderr |-> <<>>, closes |-> FALSE, exits |-> FALSE, rc |-> 0]

StartEvent == [type |-> "start", data |-> "Starting installation"]
SessionErrorEvent == [type |-> "error", data |-> "Session error"]
FailedEvent == [type |-> "error", data |-> "Installation failed"]
LineEvent(ch, line) == [type |-> StreamType(ch), data |-> line]
\* Mutant: the completion record reports success whatever the exit code.
CompleteEventAlwaysSuccess(returncode, text, fs, ranking) ==
    [type |-> "complete",
     data |-> IF returncode = 0 THEN "Successfully installed" ELSE "Failed to install",
     success |-> TRUE,
     install_digest |-> IF returncode = 0 THEN InstallDigest(text) ELSE NoDigest,
     detailed_failed_log |->
         IF returncode = 0 THEN None ELSE CollectBuildLogsFromOutput(text, fs, ranking)]

\* Lines 602-633: the completion record.
\* text is "\n".join(all_output); fs and ranking are the filesystem the collector
\* of line 623 looks at.
CompleteEvent(returncode, text, fs, ranking) ==
    [type |-> "complete",
     data |-> IF returncode = 0 THEN "Successfully installed" ELSE "Failed to install",
     success |-> (returncode = 0),
     install_digest |-> IF returncode = 0 THEN InstallDigest(text) ELSE NoDigest,
     detailed_failed_log |->
         IF returncode = 0 THEN None ELSE CollectBuildLogsFromOutput(text, fs, ranking)]

\* The command of a streaming install, lines 537-553.
InstallSpec == "zlib"
StreamCommand(sid) ==
    IF sid # NoSession
    THEN SingularityPrefix(sid) \o <<"install", InstallSpec>>
    ELSE <<SpackCmd, "install", InstallSpec>>

\* The call: the generator runs to its first yield, the `start` event.
StreamCall ==
    /\ pc = "idle"
    /\ \E sid \in SessionArgs : streamSid' = sid
    /\ events' = <<StartEvent>>
    /\ pc' = "started"
    /\ UNCHANGED <<sessVars, cmdVars, streamCmd, queue, all_output, child, rd, task, ticks>>
    /\ UNCHANGED pureVars

\* A streaming install called while no command is in flight.
StreamStart ==
    /\ cmdPc = "idle"
    /\ StreamCall

\* Mutant: a session that has a command running is refused.
StreamBuildCommandLocked ==
    /\ pc = "started"
    /\ IF \/ RaisesValueError(sessions, disk, streamSid)
          \/ (cmdPc = "running" /\ streamSid # NoSession /\ cmdCall.sid = streamSid)
       THEN /\ events' = Append(events, SessionErrorEvent)
            /\ pc' = "done"
            /\ UNCHANGED <<sessions, streamCmd>>
       ELSE /\ streamCmd' = StreamCommand(streamSid)
            /\ sessions' = IF streamSid # NoSession
                           THEN RegistryAfterGet(sessions, disk, streamSid)
                           ELSE sessions
            /\ pc' = "spawn"
            /\ UNCHANGED events
    /\ UNCHANGED <<disk, cmdVars, streamSid, queue, all_output, child, rd, task, ticks>>
    /\ UNCHANGED pureVars

\* Lines 537-553: the command is built; an unresolvable session yields one
\* `error` event and the generator returns.
StreamBuildCommand ==
    /\ pc = "started"
    /\ IF RaisesValueError(sessions, disk, streamSid)
       THEN /\ events' = Append(events, SessionErrorEvent)
            /\ pc' = "done"
            /\ UNCHANGED <<sessions, streamCmd>>
       ELSE /\ streamCmd' = StreamCommand(streamSid)
            /\ sessions' = IF streamSid # NoSession
                           THEN RegistryAfterGet(sessions, disk, streamSid)
                           ELSE sessions
            /\ pc' = "spawn"
            /\ UNCHANGED events
    /\ UNCHANGED <<disk, cmdVars, streamSid, queue, all_output, child, rd, task, ticks>>
    /\ UNCHANGED pureVars

\* Lines 556-586: create_subprocess_exec succeeds; the queue and the two reader
\* tasks are created and the drain loop makes its first poll.
StreamSpawn ==
    /\ pc = "spawn"
    /\ \E c \in Children : child' = c
    /\ task' = [ch \in Channels |-> "running"]
    /\ pc' = "drain"
    /\ UNCHANGED <<sessVars, cmdVars, streamSid, streamCmd, events, queue, all_output, rd, ticks>>
    /\ UNCHANGED pureVars

\* Mutant: the handler swallows the exception and yields nothing.
StreamSpawnFailsSilently ==
    /\ pc = "spawn"
    /\ pc' = "done"
    /\ UNCHANGED <<sessVars, cmdVars, streamSid, streamCmd, events, queue, all_output, child,
                   rd, task, ticks>>
    /\ UNCHANGED pureVars

\* Lines 556 and 635-643: create_subprocess_exec raises; the handler yields one
\* `error` event.
StreamSpawnFails ==
    /\ pc = "spawn"
    /\ events' = Append(events, FailedEvent)
    /\ pc' = "done"
    /\ UNCHANGED <<sessVars, cmdVars, streamSid, streamCmd, queue, all_output, child, rd, task, ticks>>
    /\ UNCHANGED pureVars

\* read_stream, lines 568-582, one line: decoded, stripped, appended to all_output and put
\* on the queue; an undecodable line raises inside the task, which ends.
ReadLine(ch) ==
    /\ task[ch] = "running"
    /\ rd[ch] < Len(child[ch])
    /\ LET line == child[ch][rd[ch] + 1] IN
          IF line = BadBytes
          THEN /\ task' = [task EXCEPT ![ch] = "failed"]
               /\ UNCHANGED <<queue, all_output>>
          ELSE LET line_data == RStrip(line) IN
               /\ all_output' = Append(all_output, line_data)
               /\ queue' = Append(queue, LineEvent(ch, line_data))
               /\ UNCHANGED task
    /\ rd' = [rd EXCEPT ![ch] = @ + 1]
    /\ UNCHANGED <<sessVars, cmdVars, pc, streamSid, streamCmd, events, child, ticks>>
    /\ UNCHANGED pureVars

\* read_stream, lines 569-571: readline returns b"" at end of stream.
ReadEof(ch) ==
    /\ task[ch] = "running"
    /\ rd[ch] = Len(child[ch])
    /\ child.closes
    /\ task' = [task EXCEPT ![ch] = "done"]
    /\ UNCHANGED <<sessVars, cmdVars, pc, streamSid, streamCmd, events, queue, all_output,
                   child, rd, ticks>>
    /\ UNCHANGED pureVars

ReadStdoutLine == ReadLine("stdout")
ReadStderrLine == ReadLine("stderr")
ReadStdoutEof == ReadEof("stdout")
ReadStderrEof == ReadEof("stderr")

\* task.done(): the task returned or raised.
TaskDone(ch) == task[ch] \in {"done", "failed"}

\* Mutant: only the stdout reader is waited for.
DrainExitStdoutOnly == TaskDone("stdout")

\* Line 596: the drain loop's exit test after a poll that timed out.
DrainExit == TaskDone("stdout") /\ TaskDone("stderr")

Tick(t) == IF t < MaxTicks THEN t + 1 ELSE t

\* Mutant: the poll returns the newest entry of the queue.
DrainGetNewest ==
    /\ pc = "drain"
    /\ queue # <<>>
    /\ events' = Append(events, queue[Len(queue)])
    /\ queue' = SubSeq(queue, 1, Len(queue) - 1)
    /\ UNCHANGED <<sessVars, cmdVars, pc, streamSid, streamCmd, all_output, child, rd, task, ticks>>
    /\ UNCHANGED pureVars

\* Lines 592-593: the poll returns an entry, which is yielded at once.
DrainGet ==
    /\ pc = "drain"
    /\ queue # <<>>
    /\ events' = Append(events, Head(queue))
    /\ queue' = Tail(queue)
    /\ UNCHANGED <<sessVars, cmdVars, pc, streamSid, streamCmd, all_output, child, rd, task, ticks>>
    /\ UNCHANGED pureVars

\* Mutant: the loop polls again whatever the reader tasks are.
DrainTimeoutPollsAgain ==
    /\ pc = "drain"
    /\ queue = <<>>
    /\ pc' = "drain"
    /\ ticks' = Tick(ticks)
    /\ UNCHANGED <<sessVars, cmdVars, streamSid, streamCmd, events, queue, all_output, child, rd, task>>
    /\ UNCHANGED pureVars

\* Lines 594-597: the poll times out on an empty queue; the loop is left when both
\* reader tasks are done, and polls again otherwise.
DrainTimeout ==
    /\ pc = "drain"
    /\ queue = <<>>
    /\ pc' = IF DrainExit THEN "wait" ELSE "drain"
    /\ ticks' = Tick(ticks)
    /\ UNCHANGED <<sessVars, cmdVars, streamSid, streamCmd, events, queue, all_output, child, rd, task>>
    /\ UNCHANGED pureVars

\* Lines 600-633: process.wait() returns and the `complete` event is yielded.
StreamComplete ==
    /\ pc = "wait"
    /\ child.exits
    /\ events' = Append(events, CompleteEvent(child.rc, JoinLines(all_output), fsDirs, fsRanking))
    /\ pc' = "done"
    /\ UNCHANGED <<sessVars, cmdVars, streamSid, streamCmd, queue, all_output, child, rd, task, ticks>>
    /\ UNCHANGED pureVars

\* Mutant: leaving the generator terminates the child and cancels the readers.
ConsumerStopsChildTerminated ==
    /\ pc \in {"started", "drain", "wait"}
    /\ pc' = "abandoned"
    /\ child' = IF child = NoChild THEN child
                ELSE [child EXCEPT !.closes = TRUE, !.exits = TRUE, !.rc = -15]
    /\ task' = [ch \in Channels |-> IF task[ch] = "running" THEN "cancelled" ELSE task[ch]]
    /\ UNCHANGED <<sessVars, cmdVars, streamSid, streamCmd, events, queue, all_output, rd, ticks>>
    /\ UNCHANGED pureVars

\* The consumer stops iterating: the generator is closed while suspended at a
\* yield (lines 528, 593) or its task is cancelled while it awaits the queue or
\* process.wait() (lines 592, 600).  GeneratorExit and CancelledError are not
\* Exception, so the handler of line 635 does not run, and there is no finally:
\* the generator ends, the child and the two reader tasks are left as they are.
ConsumerStops ==
    /\ pc \in {"started", "drain", "wait"}
    /\ pc' = "abandoned"
    /\ UNCHANGED <<sessVars, cmdVars, streamSid, streamCmd, events, queue, all_output, child,
                   rd, task, ticks>>
    /\ UNCHANGED pureVars

\* Line 600: process.wait() is still pending while time passes.
StreamWaitPending ==
    /\ pc = "wait"
    /\ ~child.exits
    /\ ticks < MaxTicks
    /\ ticks' = Tick(ticks)
    /\ UNCHANGED <<sessVars, cmdVars, pc, streamSid, streamCmd, events, queue, all_output, child, rd, task>>
    /\ UNCHANGED pureVars

(***************************************************************************)
(* The digest extractors, one step each                                    *)
(***************************************************************************)
ExtractDigest ==
    /\ digPc = "input"
    /\ digPrimary' = ExtractInstallDigest(digText)
    /\ digPc' = "primary"
    /\ UNCHANGED <<serviceVars, infoVars, logVars, digText, digRobust, digInstall>>

ExtractDigestRobust ==
    /\ digPc = "primary"
    /\ digRobust' = ExtractInstallDigestRobust(digText)
    /\ digPc' = "robust"
    /\ UNCHANGED <<serviceVars, infoVars, logVars, digText, digPrimary, digInstall>>

ReportInstallDigest ==
    /\ digPc = "robust"
    /\ digInstall' = InstallDigest(digText)
    /\ digPc' = "done"
    /\ UNCHANGED <<serviceVars, infoVars, logVars, digText, digPrimary, digRobust>>

(***************************************************************************)
(* get_package_info: the parser of the `info` text                         *)
(***************************************************************************)

UpperChars ==
    {"A", "B", "C", "D", "E", "F", "G", "H", "I", "J", "K", "L", "M",
     "N", "O", "P", "Q", "R", "S", "T", "U", "V", "W", "X", "Y", "Z"}

\* lines[i], i counted from 0
LineAt(lines, i) == lines[i + 1]

\* lines[i].startswith("    ") or not lines[i].strip()
IsContinuation(l) == StartsWith(l, "    ") \/ Strip(l) = ""

\* Lines 1303, 1317, 1332, 1381, 1394, 1406: the first position at or after i
\* that is past the end or holds a line that is neither indented nor blank.
ContinuationEnd(lines, i) ==
    Min({j \in i..(Len(lines) - 1) : ~IsContinuation(LineAt(lines, j))} \cup {Len(lines)})

\* Line 1274
ExcludedStarts == {"Homepage:", "Preferred version:", "Safe versions:"}

\* Lines 1275-1277: the description's continuation lines are indented and do
\* not begin, after the indentation, with one of the excluded headers.
IsDescriptionContinuation(l) ==
    StartsWith(l, "    ") /\ \A h \in ExcludedStarts : ~StartsWith(Strip(l), h)

DescriptionEnd(lines, i) ==
    Min({j \in i..(Len(lines) - 1) : ~IsDescriptionContinuation(LineAt(lines, j))}
        \cup {Len(lines)})

\* lines[a:b] stripped
StrippedLines(lines, a, b) == [k \in 1..(b - a) |-> Strip(LineAt(lines, a + k - 1))]

\* Lines 1278-1279: multiline_description += " " + lines[i].strip(), for each line
RECURSIVE JoinWithSpaces(_)
JoinWithSpaces(ls) ==
    IF ls = <<>> THEN "" ELSE " " \o Head(ls) \o JoinWithSpaces(Tail(ls))

\* SpackVersionInfo(version=parts[0], url=parts[1] if len(parts) > 1 else None)
VersionInfo(version_line) ==
    LET parts == SplitWs(version_line) IN
    [version |-> parts[1],
     url |-> IF Len(parts) > 1 THEN Some(parts[2]) ELSE None,
     has_checksum |-> FALSE,
     checksum |-> None]

VersionInfos(ls) == [k \in 1..Len(ls) |-> VersionInfo(ls[k])]

\* Line 1305: the lines of a "Safe versions:" section that are versions
IsSafeVersionLine(version_line) ==
    /\ version_line # ""
    /\ ~StartsWith(version_line, "Deprecated versions:")
    /\ ~StartsWith(version_line, "Variants:")

\* Lines 1319, 1383, 1396, 1408: the lines that are not empty and not "None"
IsValueLine(l) == l # "" /\ l # "None"

\* deps_line.split() of each line, one after the other
RECURSIVE SplitAll(_)
SplitAll(ls) == IF ls = <<>> THEN <<>> ELSE SplitWs(Head(ls)) \o SplitAll(Tail(ls))

\* [v.strip() for v in remaining.split(",")]
StrippedFields(remaining) ==
    LET fields == SplitOn(remaining, ",") IN [k \in 1..Len(fields) |-> Strip(fields[k])]

\* Lines 1348-1370: the variant a line "name [default] rest" defines; bracket_start
\* and bracket_end are the positions of the first "[" and "]", counted from 0.
VariantOf(variant_line) ==
    LET bracket_start == Find(variant_line, "[") - 1
        bracket_end == Find(variant_line, "]") - 1
        remaining == Strip(From(variant_line, bracket_end + 2))
        upper == remaining # "" /\ At(remaining, 1) \in UpperChars
    IN [name |-> Strip(SubSeq(variant_line, 1, bracket_start)),
        default |-> Strip(SubSeq(variant_line, bracket_start + 2, bracket_end)),
        values |-> IF remaining = "" THEN <<>>
                   ELSE IF Contains(remaining, ",") THEN StrippedFields(remaining)
                   ELSE IF upper THEN <<>> ELSE <<remaining>>,
        description |-> IF remaining # "" /\ ~Contains(remaining, ",") /\ upper
                        THEN remaining ELSE "",
        conditional |-> None]

\* Line 1351
HasVariantBrackets(variant_line) ==
    LET bracket_start == Find(variant_line, "[") - 1
        bracket_end == Find(variant_line, "]") - 1
    IN bracket_start > 0 /\ bracket_end > bracket_start

\* Lines 1332-1371, the loop of the "Variants:" section over the stripped lines ls.
\* st.variants is the list, st.current the variant being accumulated (None or one),
\* st.shared the positions of the list that hold that same object.
RECURSIVE VariantsLoop(_, _)
VariantsLoop(ls, st) ==
    IF ls = <<>> THEN st
    ELSE LET variant_line == Head(ls) IN
         IF variant_line = "" THEN VariantsLoop(Tail(ls), st)
         ELSE IF StartsWith(variant_line, "when @")
         THEN IF st.current # None
              THEN LET cv == [st.current[1] EXCEPT !.conditional = Some(variant_line)] IN
                   VariantsLoop(Tail(ls),
                       [variants |-> [k \in 1..Len(st.variants) |->
                                         IF k \in st.shared THEN cv ELSE st.variants[k]],
                        current |-> Some(cv),
                        shared |-> st.shared])
              ELSE VariantsLoop(Tail(ls), st)
         ELSE IF Contains(variant_line, "[") /\ Contains(variant_line, "]")
         THEN LET flushed == IF st.current # None
                             THEN [st EXCEPT !.variants = Append(st.variants, st.current[1]),
                                             !.shared = st.shared \cup {Len(st.variants) + 1}]
                             ELSE st
              IN IF HasVariantBrackets(variant_line)
                 THEN VariantsLoop(Tail(ls),
                          [variants |-> flushed.variants,
                           current |-> Some(VariantOf(variant_line)),
                           shared |-> {}])
                 ELSE VariantsLoop(Tail(ls), flushed)
         ELSE VariantsLoop(Tail(ls), st)

\* Lines 1330-1376: the variants of one section; the last one is flushed at its end.
VariantsOf(ls, variants) ==
    LET st == VariantsLoop(ls, [variants |-> variants, current |-> None, shared |-> {}])
    IN IF st.current # None THEN Append(st.variants, st.current[1]) ELSE st.variants

\* Lines 1244-1257: the accumulators before the first line
EmptyAcc ==
    [package_type |-> "", description |-> "", multiline_description |-> "",
     homepage |-> "", preferred_version |-> None, safe_versions |-> <<>>,
     deprecated_versions |-> <<>>, variants |-> <<>>, build_dependencies |-> <<>>,
     link_dependencies |-> <<>>, run_dependencies |-> <<>>, licenses |-> <<>>,
     all_dependencies |-> <<>>]

NoPackage == [name |-> ""]      \* nothing returned yet

\* Mutant: the failure descriptor with the defaults of the success path.
MinimalPackageAsParsed(package_name, version) ==
    [name |-> package_name,
     version |-> IF version # "" THEN version ELSE "latest",
     package_type |-> None,
     description |-> "Spack package: " \o package_name,
     homepage |-> None,
     preferred_version |-> None, safe_versions |-> <<>>, deprecated_versions |-> <<>>,
     variants |-> <<>>, build_dependencies |-> <<>>, link_dependencies |-> <<>>,
     run_dependencies |-> <<>>, licenses |-> <<>>, dependencies |-> <<>>]

\* Lines 1233-1240: the descriptor returned when the info command failed
MinimalPackage(package_name, version) ==
    [name |-> package_name,
     version |-> IF version # "" THEN version ELSE "unknown",
     package_type |-> None,
     description |-> "Package information unavailable",
     homepage |-> Some(""),
     preferred_version |-> None, safe_versions |-> <<>>, deprecated_versions |-> <<>>,
     variants |-> <<>>, build_dependencies |-> <<>>, link_dependencies |-> <<>>,
     run_dependencies |-> <<>>, licenses |-> <<>>, dependencies |-> <<>>]

\* list(set(all_dependencies)): the distinct names, in any order
Orderings(S) == {f \in [1..Cardinality(S) -> S] : Range(f) = S}

\* Lines 1430-1445: the descriptor returned after the last line
ParsedPackage(package_name, version, a, dependencies) ==
    [name |-> package_name,
     version |-> IF version # "" THEN version ELSE "latest",
     package_type |-> IF a.package_type # "" THEN Some(a.package_type) ELSE None,
     description |-> IF a.description # "" THEN a.description
                     ELSE "Spack package: " \o package_name,
     homepage |-> IF a.homepage # "" THEN Some(a.homepage) ELSE None,
     preferred_version |-> a.preferred_version,
     safe_versions |-> a.safe_versions,
     deprecated_versions |-> a.deprecated_versions,
     variants |-> a.variants,
     build_dependencies |-> a.build_dependencies,
     link_dependencies |-> a.link_dependencies,
     run_dependencies |-> a.run_dependencies,
     licenses |-> a.licenses,
     dependencies |-> dependencies]

\* The section headers, in the order of the elif chain (lines 1270-1416)
SectionHeaders ==
    <<"Description:", "Homepage:", "Preferred version:", "Safe versions:",
      "Deprecated versions:", "Variants:", "Build Dependencies:", "Link Dependencies:",
      "Run Dependencies:", "Licenses:">>

\* Lines 1261-1416: the branch of the chain taken for lines[i]; "" when none is.
Branch(lines, i) ==
    LET line == Strip(LineAt(lines, i))
        H == {k \in 1..Len(SectionHeaders) : StartsWith(line, SectionHeaders[k])}
    IN IF i = 0 /\ Contains(line, ":") /\ ~StartsWith(line, " ") THEN "package type"
       ELSE IF H = {} THEN ""
       ELSE SectionHeaders[Min(H)]

\* Lines 1228-1240: the info command failed
InfoCommandFailed ==
    /\ infoPc = "called"
    /\ ~infoReq.success
    /\ infoResult' = MinimalPackage(infoReq.package_name, infoReq.version)
    /\ infoPc' = "done"
    /\ UNCHANGED <<serviceVars, digestVars, logVars, infoReq, infoLines, lineNo, acc,
                   recognised, consumed, passes>>

\* Lines 1243-1259
ParseBegin ==
    /\ infoPc = "called"
    /\ infoReq.success
    /\ infoLines' = SplitOn(infoReq.stdout, "\n")
    /\ acc' = EmptyAcc
    /\ lineNo' = 0
    /\ infoPc' = "parse"
    /\ passes' = 0
    /\ UNCHANGED <<serviceVars, digestVars, logVars, infoReq, infoResult, recognised, consumed>>

\* One pass of the while loop of line 1260 taking the branch of `header`
AtBranch(header) ==
    /\ infoPc = "parse"
    /\ lineNo < Len(infoLines)
    /\ Branch(infoLines, lineNo) = header
    /\ passes' = passes + 1
    /\ UNCHANGED <<serviceVars, digestVars, logVars, infoPc, infoReq, infoLines, infoResult>>

Recognise == recognised' = recognised \cup {lineNo}

\* Lines 1264-1267
ParsePackageType ==
    /\ AtBranch("package type")
    /\ acc' = [acc EXCEPT !.package_type =
                   Strip(SplitOnce(Strip(LineAt(infoLines, lineNo)), ":")[1])]
    /\ lineNo' = lineNo + 1
    /\ UNCHANGED <<recognised, consumed>>

\* No branch of the chain applies: line 1428 alone
ParseOtherLine ==
    /\ AtBranch("")
    /\ lineNo' = lineNo + 1
    /\ UNCHANGED <<acc, recognised, consumed>>

\* Mutant: the cursor is backed up once more than the loop advanced it.
ParseDescriptionBacksUpTwice ==
    /\ AtBranch("Description:")
    /\ LET end == DescriptionEnd(infoLines, lineNo + 1)
           multiline_description ==
               acc.multiline_description
                   \o JoinWithSpaces(StrippedLines(infoLines, lineNo + 1, end))
       IN /\ acc' = [acc EXCEPT
                        !.multiline_description = multiline_description,
                        !.description =
                            Strip(Replace(Strip(LineAt(infoLines, lineNo)), "Description:", ""))
                                \o multiline_description]
          /\ consumed' = consumed \cup (lineNo + 1)..(end - 1)
          /\ lineNo' = end - 1
    /\ Recognise

\* Lines 1270-1282
ParseDescription ==
    /\ AtBranch("Description:")
    /\ LET end == DescriptionEnd(infoLines, lineNo + 1)
           multiline_description ==
               acc.multiline_description
                   \o JoinWithSpaces(StrippedLines(infoLines, lineNo + 1, end))
       IN /\ acc' = [acc EXCEPT
                        !.multiline_description = multiline_description,
                        !.description =
                            Strip(Replace(Strip(LineAt(infoLines, lineNo)), "Description:", ""))
                                \o multiline_description]
          /\ consumed' = consumed \cup (lineNo + 1)..(end - 1)
          /\ lineNo' = end
    /\ Recognise

\* Lines 1285-1286
ParseHomepage ==
    /\ AtBranch("Homepage:")
    /\ acc' = [acc EXCEPT !.homepage =
                   Strip(Replace(Strip(LineAt(infoLines, lineNo)), "Homepage:", ""))]
    /\ lineNo' = lineNo + 1
    /\ Recognise
    /\ UNCHANGED consumed

\* Lines 1289-1298: the line after the header is read as the version, whatever it is
ParsePreferredVersion ==
    /\ AtBranch("Preferred version:")
    /\ IF lineNo + 1 < Len(infoLines)
       THEN /\ consumed' = consumed \cup {lineNo + 1}
            /\ acc' = IF Strip(LineAt(infoLines, lineNo + 1)) # ""
                      THEN [acc EXCEPT !.preferred_version =
                               Some(VersionInfo(Strip(LineAt(infoLines, lineNo + 1))))]
                      ELSE acc
       ELSE UNCHANGED <<acc, consumed>>
    /\ lineNo' = lineNo + 2
    /\ Recognise

\* The section at lineNo reads the continuation lines up to `end`.
ScanTo(end) ==
    /\ consumed' = consumed \cup (lineNo + 1)..(end - 1)
    /\ lineNo' = end
    /\ Recognise

\* Lines 1301-1312
ParseSafeVersions ==
    /\ AtBranch("Safe versions:")
    /\ LET end == ContinuationEnd(infoLines, lineNo + 1)
           ls == SelectSeq(StrippedLines(infoLines, lineNo + 1, end), IsSafeVersionLine)
       IN /\ acc' = [acc EXCEPT !.safe_versions = @ \o VersionInfos(ls)]
          /\ ScanTo(end)

\* Lines 1315-1326
ParseDeprecatedVersions ==
    /\ AtBranch("Deprecated versions:")
    /\ LET end == ContinuationEnd(infoLines, lineNo + 1)
           ls == SelectSeq(StrippedLines(infoLines, lineNo + 1, end), IsValueLine)
       IN /\ acc' = [acc EXCEPT !.deprecated_versions = @ \o VersionInfos(ls)]
          /\ ScanTo(end)

\* Lines 1329-1376
ParseVariants ==
    /\ AtBranch("Variants:")
    /\ LET end == ContinuationEnd(infoLines, lineNo + 1)
       IN /\ acc' = [acc EXCEPT !.variants =
                        VariantsOf(StrippedLines(infoLines, lineNo + 1, end), @)]
          /\ ScanTo(end)

\* Lines 1379-1389
ParseBuildDependencies ==
    /\ AtBranch("Build Dependencies:")
    /\ LET end == ContinuationEnd(infoLines, lineNo + 1)
           deps == SplitAll(SelectSeq(StrippedLines(infoLines, lineNo + 1, end), IsValueLine))
       IN /\ acc' = [acc EXCEPT !.build_dependencies = @ \o deps,
                                !.all_dependencies = @ \o deps]
          /\ ScanTo(end)

\* Mutant: the Link section also extends the Build list.
ParseLinkDependenciesIntoBuild ==
    /\ AtBranch("Link Dependencies:")
    /\ LET end == ContinuationEnd(infoLines, lineNo + 1)
           deps == SplitAll(SelectSeq(StrippedLines(infoLines, lineNo + 1, end), IsValueLine))
       IN /\ acc' = [acc EXCEPT !.build_dependencies = @ \o deps,
                                !.link_dependencies = @ \o deps,
                                !.all_dependencies = @ \o deps]
          /\ ScanTo(end)

\* Lines 1392-1401
ParseLinkDependencies ==
    /\ AtBranch("Link Dependencies:")
    /\ LET end == ContinuationEnd(infoLines, lineNo + 1)
           deps == SplitAll(SelectSeq(StrippedLines(infoLines, lineNo + 1, end), IsValueLine))
       IN /\ acc' = [acc EXCEPT !.link_dependencies = @ \o deps,
                                !.all_dependencies = @ \o deps]
          /\ ScanTo(end)

\* Lines 1404-1413
ParseRunDependencies ==
    /\ AtBranch("Run Dependencies:")
    /\ LET end == ContinuationEnd(infoLines, lineNo + 1)
           deps == SplitAll(SelectSeq(StrippedLines(infoLines, lineNo + 1, end), IsValueLine))
       IN /\ acc' = [acc EXCEPT !.run_dependencies = @ \o deps,
                                !.all_dependencies = @ \o deps]
          /\ ScanTo(end)

\* Lines 1416-1426: the value is on the header's line, or else the next line is
\* read as the value, whatever it is
ParseLicenses ==
    /\ AtBranch("Licenses:")
    /\ LET license_line == Strip(Replace(Strip(LineAt(infoLines, lineNo)), "Licenses:", ""))
       IN IF IsValueLine(license_line)
          THEN /\ acc' = [acc EXCEPT !.licenses = <<license_line>>]
               /\ lineNo' = lineNo + 1
               /\ UNCHANGED consumed
          ELSE /\ IF lineNo + 1 < Len(infoLines)
                  THEN /\ consumed' = consumed \cup {lineNo + 1}
                       /\ acc' = IF IsValueLine(Strip(LineAt(infoLines, lineNo + 1)))
                                 THEN [acc EXCEPT !.licenses =
                                          <<Strip(LineAt(infoLines, lineNo + 1))>>]
                                 ELSE acc
                  ELSE UNCHANGED <<acc, consumed>>
               /\ lineNo' = lineNo + 2
    /\ Recognise

\* Lines 1260 and 1430-1445: the loop ends and the descriptor is returned
ParseReturn ==
    /\ infoPc = "parse"
    /\ lineNo >= Len(infoLines)
    /\ \E dependencies \in Orderings(Range(acc.all_dependencies)) :
           infoResult' = ParsedPackage(infoReq.package_name, infoReq.version, acc, dependencies)
    /\ infoPc' = "done"
    /\ UNCHANGED <<serviceVars, digestVars, logVars, infoReq, infoLines, lineNo, acc,
                   recognised, consumed, passes>>

\* The arguments of get_package_info
PackageNames == {"dummy-test"}
NoVersion == ""                  \* version=None
Versions == {NoVersion, "1.0.0"}

\* Lines 1222-1227: spec and cmd of get_package_info
InfoSpec(package_name, version) ==
    IF version # "" THEN package_name \o "@" \o version ELSE package_name
InfoCommand(package_name, version) == <<SpackCmd, "info", InfoSpec(package_name, version)>>

\* The default of _run_spack_command's timeout (line 144)
DefaultTimeout == 300

\* Lines 1222-1229 with _run_spack_command up to the runner (lines 159-172): the
\* ValueError of an unresolvable session is re-raised by _run_spack_command and
\* get_package_info has no handler for it, so it leaves get_package_info.
GetPackageInfoCall ==
    /\ infoPc = "idle"
    /\ cmdPc = "idle"
    /\ pc = "idle"
    /\ \E package_name \in PackageNames, version \in Versions, sid \in SessionArgs :
          LET cmd == InfoCommand(package_name, version) IN
          /\ infoReq' = [package_name |-> package_name, version |-> version,
                         success |-> FALSE, stdout |-> ""]
          /\ IF RaisesValueError(sessions, disk, sid)
             THEN /\ cmdPc' = "raised"
                  /\ infoPc' = "raised"
                  /\ cmdCall' = [sid |-> sid, base |-> cmd, timeout |-> DefaultTimeout,
                                 ran |-> FALSE, argv |-> <<>>, outcome |-> NoOutcome]
                  /\ UNCHANGED sessions
             ELSE /\ cmdPc' = "running"
                  /\ infoPc' = "awaiting"
                  /\ cmdCall' = [sid |-> sid, base |-> cmd, timeout |-> DefaultTimeout,
                                 ran |-> TRUE, argv |-> BuildCommand(sid, cmd),
                                 outcome |-> NoOutcome]
                  /\ sessions' = IF sid # NoSession
                                 THEN RegistryAfterGet(sessions, disk, sid)
                                 ELSE sessions
    /\ UNCHANGED <<disk, cmdResult, streamVars, digestVars, logVars, otherVars, infoLines,
                   lineNo, acc, infoResult, recognised, consumed, passes>>

\* Line 1229: the await of _run_spack_command returns the runner's result
GetPackageInfoResumes ==
    /\ infoPc = "awaiting"
    /\ cmdPc = "done"
    /\ infoReq' = [infoReq EXCEPT !.success = cmdResult.success, !.stdout = cmdResult.stdout]
    /\ infoPc' = "called"
    /\ UNCHANGED <<serviceVars, digestVars, logVars, infoLines, lineNo, acc, infoResult,
                   recognised, consumed, passes>>

\* The `info` texts: the tool's lines, in any order.
InfoLineCatalogue ==
    { "BundlePackage:   dummy-test",
      "Description: A dummy package",
      "Homepage: https://example.com/dummy-test",
      "Preferred version:",
      "Safe versions:",
      "Deprecated versions:",
      "Variants:",
      "Build Dependencies:",
      "Link Dependencies:",
      "Run Dependencies:",
      "Licenses:",
      "Licenses: MIT",
      "    1.0.0  https://example.com/dummy-test-1.0.0.tar.gz",
      "    build_system [bundle]  bundle",
      "    zlib cmake",
      "    None",
      "" }
InfoTexts == {JoinLines(ls) : ls \in UNION {[1..n -> InfoLineCatalogue] : n \in 0..MaxInfoLines}}
InfoRequests ==
    [package_name : PackageNames, version : Versions, success : BOOLEAN, stdout : InfoTexts]
NoRequest == [package_name |-> "", version |-> NoVersion, success |-> FALSE, stdout |-> ""]

IdleInfo ==
    /\ infoPc = "idle"
    /\ infoReq = NoRequest
    /\ infoLines = <<>>
    /\ lineNo = 0
    /\ acc = EmptyAcc
    /\ infoResult = NoPackage
    /\ recognised = {}
    /\ consumed = {}
    /\ passes = 0

(***************************************************************************)
(* GitService.create_pull_request (git_service.py)                         *)
(***************************************************************************)
SpackRepoUrl == "https://github.com/wtsi-hgi/spack-repo.git"
CloneUuid == "c0ffee"            \* str(uuid.uuid4())
CloneDir == "/tmp/" \o CloneUuid
Timestamp == "1700000000"        \* int(time.time())

RecipeNames == {"", "py-dummy"}  \* "" is recipe_name=None

\* Lines 477-479
BranchName(package_name) == "add-" \o package_name \o "-recipe-" \o Timestamp
CommitMessage(recipe_name) == "Add " \o recipe_name \o " recipe"

\* The argument vectors of the six git commands (lines 485, 505, 570, 591, 614, 639)
GitSteps == <<"clone", "checkout", "add", "status", "commit", "push">>
GitCommand(step, req) ==
    CASE step = "clone" -> <<"git", "clone", SpackRepoUrl, CloneDir>>
      [] step = "checkout" -> <<"git", "checkout", "-b", req.branch_name>>
      [] step = "add" -> <<"git", "add", ".">>
      [] step = "status" -> <<"git", "status", "--porcelain">>
      [] step = "commit" -> <<"git", "commit", "-m", req.commit_message>>
      [] step = "push" -> <<"git", "push", "origin", req.branch_name>>

\* What is appended to executed_commands for a command (lines 487, 507, 572, 617, 641)
Displayed(step, req) ==
    IF step = "commit"
    THEN "git commit -m \"" \o req.commit_message \o "\""
    ELSE Join(GitCommand(step, req), " ")

\* Line 567
CopyDisplayed(req) ==
    "cp -r /tmp/" \o req.session_id \o "/spack-repo/packages/* " \o CloneDir \o "/packages/"

\* _run_command (lines 21-123): the result of a command that exits 0, and of one
\* that exits with another code, times out or cannot be started.
GitStderrs ==
    { "fatal: unable to access the repository",
      "fatal: A branch named 'add-dummy-test-recipe' already exists",
      "error: failed to push some refs: rejected",
      "fatal: Authentication failed" }
GitStdouts == {"", "A  packages/dummy-test/package.py\n"}
GitResults ==
    [success : {TRUE}, stdout : GitStdouts, stderr : {""}]
        \cup [success : {FALSE}, stdout : {""}, stderr : GitStderrs]

NoGitRequest ==
    [package_name |-> "", recipe_name |-> "", session_id |-> NoSession,
     branch_name |-> "", commit_message |-> "", has_packages |-> FALSE]
NoGitResult == [success |-> FALSE, message |-> "", unset |-> TRUE]

IdleGit ==
    /\ gitPc = "idle"
    /\ gitReq = NoGitRequest
    /\ executed_commands = <<>>
    /\ gitRun = <<>>
    /\ cloneDir = FALSE
    /\ gitResult = NoGitResult

\* GitPullRequestResult (responses.py 236-244); None is the default of the
\* optional fields and [] of git_commands.
PullRequestResult(success, message, req, branch, commit, commands, pr_url) ==
    [success |-> success,
     message |-> message,
     package_name |-> req.package_name,
     branch_name |-> IF branch THEN Some(req.branch_name) ELSE None,
     commit_message |-> IF commit THEN Some(req.commit_message) ELSE None,
     git_commands |-> commands,
     pr_url |-> pr_url]

\* Lines 702-703
PrUrl(req) == "https://github.com/wtsi-hgi/spack-repo/compare/main..." \o req.branch_name

GitUnchanged ==
    UNCHANGED <<disk, cmdVars, streamVars, digestVars, infoVars, logVars, frameVars, valVars,
                callVars>>

\* The result of one awaited _run_command is recorded, displayed or not.
Ran(step, result, listed) ==
    /\ gitRun' = Append(gitRun, [step |-> step, argv |-> GitCommand(step, gitReq),
                                 success |-> result.success])
    /\ executed_commands' = IF listed THEN Append(executed_commands, Displayed(step, gitReq))
                            ELSE executed_commands

\* `return GitPullRequestResult(...)`
GitReturn(result) ==
    /\ gitResult' = result
    /\ gitPc' = "returned"

\* Lines 450-486: the call, up to the await of git clone
CreatePullRequestCall ==
    /\ gitPc = "idle"
    /\ \E package_name \in PackageNames, recipe \in RecipeNames, sid \in SessionArgs,
          has_packages \in BOOLEAN :
          LET recipe_name == IF recipe = "" THEN package_name ELSE recipe
              req == [package_name |-> package_name, recipe_name |-> recipe_name,
                      session_id |-> sid, branch_name |-> BranchName(package_name),
                      commit_message |-> CommitMessage(recipe_name),
                      has_packages |-> has_packages]
              found == /\ sid # NoSession
                       /\ SessionResolvable(sessions, disk, sid)
                       /\ sid \in disk
          IN /\ gitReq' = req
             /\ sessions' = IF sid # NoSession THEN RegistryAfterGet(sessions, disk, sid)
                            ELSE sessions
             /\ IF found
                THEN /\ gitPc' = "clone"
                     /\ UNCHANGED gitResult
                ELSE GitReturn(PullRequestResult(FALSE,
                         "Session directory not found or not initialized", req,
                         FALSE, FALSE, <<>>, None))
    /\ UNCHANGED <<executed_commands, gitRun, cloneDir>>
    /\ GitUnchanged

\* Lines 486-503: git clone returns. A clone that fails may leave the directory.
CloneReturns ==
    /\ gitPc = "clone"
    /\ \E result \in GitResults, left \in BOOLEAN :
          /\ Ran("clone", result, TRUE)
          /\ IF result.success
             THEN /\ cloneDir' = TRUE
                  /\ gitPc' = "checkout"
                  /\ UNCHANGED gitResult
             ELSE /\ cloneDir' = left
                  /\ GitReturn(PullRequestResult(FALSE,
                         "Failed to clone repository: " \o result.stderr, gitReq,
                         FALSE, FALSE, executed_commands', None))
    /\ UNCHANGED <<sessions, gitReq>>
    /\ GitUnchanged

\* Lines 505-570: git checkout -b returns; on success the session's packages are
\* copied into the clone, which may raise, and git add is awaited.
CheckoutReturns ==
    /\ gitPc = "checkout"
    /\ \E result \in GitResults, copy_raises \in BOOLEAN :
          IF ~result.success
          THEN /\ Ran("checkout", result, TRUE)
               /\ cloneDir' = FALSE
               /\ GitReturn(PullRequestResult(FALSE,
                      IF Contains(result.stderr, "already exists")
                      THEN "Branch " \o gitReq.branch_name \o " already exists. "
                               \o "Please try again or use a different package name."
                      ELSE "Failed to create branch: " \o result.stderr,
                      gitReq, TRUE, FALSE, executed_commands', None))
          ELSE IF gitReq.has_packages /\ copy_raises
          THEN /\ Ran("checkout", result, TRUE)
               /\ UNCHANGED cloneDir
               /\ GitReturn(PullRequestResult(FALSE,
                      "Failed to create pull request: [Errno 13] Permission denied",
                      gitReq, FALSE, FALSE, <<>>, None))
          ELSE /\ gitRun' = Append(gitRun, [step |-> "checkout",
                                            argv |-> GitCommand("checkout", gitReq),
                                            success |-> TRUE])
               /\ executed_commands' =
                     Append(executed_commands, Displayed("checkout", gitReq))
                         \o (IF gitReq.has_packages THEN <<CopyDisplayed(gitReq)>> ELSE <<>>)
               /\ gitPc' = "add"
               /\ UNCHANGED <<cloneDir, gitResult>>
    /\ UNCHANGED <<sessions, gitReq>>
    /\ GitUnchanged

\* Lines 570-589: git add returns
AddReturns ==
    /\ gitPc = "add"
    /\ \E result \in GitResults :
          /\ Ran("add", result, TRUE)
          /\ IF result.success
             THEN /\ gitPc' = "status"
                  /\ UNCHANGED <<cloneDir, gitResult>>
             ELSE /\ cloneDir' = FALSE
                  /\ GitReturn(PullRequestResult(FALSE,
                         "Failed to add changes: " \o result.stderr, gitReq,
                         TRUE, FALSE, executed_commands', None))
    /\ UNCHANGED <<sessions, gitReq>>
    /\ GitUnchanged

\* Lines 591-611: git status --porcelain returns; the command is not listed, and
\* only a successful status with no output ends the call.
StatusReturns ==
    /\ gitPc = "status"
    /\ \E result \in GitResults :
          /\ Ran("status", result, FALSE)
          /\ IF result.success /\ Strip(result.stdout) = ""
             THEN GitReturn(PullRequestResult(FALSE,
                      "No changes to commit. The package files may not have been copied "
                          \o "correctly or there are no differences from the base repository.",
                      gitReq, TRUE, FALSE, executed_commands', None))
             ELSE /\ gitPc' = "commit"
                  /\ UNCHANGED gitResult
    /\ UNCHANGED <<sessions, gitReq, cloneDir>>
    /\ GitUnchanged

\* Lines 613-636: git commit returns
CommitReturns ==
    /\ gitPc = "commit"
    /\ \E result \in GitResults :
          /\ Ran("commit", result, TRUE)
          /\ IF result.success
             THEN /\ gitPc' = "push"
                  /\ UNCHANGED <<cloneDir, gitResult>>
             ELSE /\ cloneDir' = FALSE
                  /\ GitReturn(PullRequestResult(FALSE,
                         "Failed to commit changes: " \o result.stderr, gitReq,
                         TRUE, TRUE, executed_commands', None))
    /\ UNCHANGED <<sessions, gitReq>>
    /\ GitUnchanged

\* Lines 650-695: the message of a failed push
PushFailureMessage(req, error_msg) ==
    IF Contains(error_msg, "non-fast-forward") \/ Contains(error_msg, "rejected")
    THEN "Branch " \o req.branch_name \o " already exists on remote. "
             \o "This usually means the branch was created in a previous attempt. "
             \o "Please try again with a different package name or wait a few minutes."
    ELSE IF Contains(error_msg, "Authentication failed")
    THEN "Git authentication failed. Please check your git credentials and try again."
    ELSE "Failed to push branch: " \o error_msg

\* Lines 638-724: git push returns; the clone is removed either way
PushReturns ==
    /\ gitPc = "push"
    /\ \E result \in GitResults :
          /\ Ran("push", result, TRUE)
          /\ cloneDir' = FALSE
          /\ IF result.success
             THEN GitReturn(PullRequestResult(TRUE,
                      "Successfully prepared pull request for " \o gitReq.package_name
                          \o ". Branch " \o gitReq.branch_name \o " has been pushed.",
                      gitReq, TRUE, TRUE, executed_commands', Some(PrUrl(gitReq))))
             ELSE GitReturn(PullRequestResult(FALSE,
                      PushFailureMessage(gitReq, result.stderr), gitReq,
                      TRUE, TRUE, executed_commands', None))
    /\ UNCHANGED <<sessions, gitReq>>
    /\ GitUnchanged

(***************************************************************************)
(* SpackService.validate_package_stream (spack_service.py 1835-2018)       *)
(***************************************************************************)
\* package_type is any string (requests.py 81); "perl" is not one the service knows.
PackageTypes == {"python", "r", "other", "perl"}
NoneDigest == ""                 \* installation_digest=None
ValidationDigests == {NoneDigest, "abcdefghijklmnopqrstuvwxyz012345"}
NoScript == ""                   \* custom_validation_script=None
CustomScripts == {NoScript, "dummy-test --version"}

\* Lines 1875-1880
ValidationScripts(package_name) ==
    [python |-> "python -c \"import " \o package_name \o "\"",
     r |-> "Rscript -e \"library(" \o package_name \o ")\"",
     other |-> "# Check package documentation for validation"]

\* Lines 1873-1881: validation_scripts.get(package_type, validation_scripts["other"])
ValidationScript(req) ==
    IF req.custom_validation_script # NoScript THEN req.custom_validation_script
    ELSE IF req.package_type \in DOMAIN ValidationScripts(req.package_name)
    THEN ValidationScripts(req.package_name)[req.package_type]
    ELSE ValidationScripts(req.package_name)["other"]

\* Line 1901
Prefixes == [python |-> "py-", r |-> "r-", other |-> ""]

\* Lines 1890-1902: prefixes[package_type] raises KeyError for a type that is
\* not a key, when no digest was given.
LoadSpecRaises(req) ==
    req.installation_digest = NoneDigest /\ req.package_type \notin DOMAIN Prefixes

\* Lines 1890-1903
LoadSpec(req) ==
    IF req.installation_digest # NoneDigest
    THEN "/" \o SubSeq(req.installation_digest, 1, Min({7, Len(req.installation_digest)}))
    ELSE IF req.package_type \in DOMAIN Prefixes
    THEN Prefixes[req.package_type] \o req.package_name
    ELSE req.package_name

\* Lines 1915-1920 and 1933-1936: validation_command
ValidationCommand(req, session_dir) ==
    (IF req.session_id # NoSession
     THEN "singularity exec --bind /usr/bin/zsh --bind /mnt/data --bind " \o session_dir
              \o "/repos.yaml:/home/ubuntu/.spack/repos.yaml /home/ubuntu/spack.sif bash -c "
     ELSE "singularity exec --bind /mnt/data /home/ubuntu/spack.sif bash -c ")
        \o "'source <(/opt/spack/bin/spack load --sh " \o LoadSpec(req) \o "); "
        \o ValidationScript(req) \o "'"

\* cmd (lines 1921, 1937) and " ".join(cmd) (line 1996)
ValidationCmd(req, session_dir) == <<"bash", "-c", ValidationCommand(req, session_dir)>>

\* SpackValidationStreamResult (responses.py 215-224)
ValidationResult(type, data, req, success, validation_command) ==
    [type |-> type, data |-> data, package_name |-> req.package_name,
     package_type |-> req.package_type, success |-> success,
     validation_command |-> validation_command]

\* Lines 1864-1870
ValidationStart(req) ==
    ValidationResult("start",
        "Starting validation of " \o req.package_name
            \o (IF req.session_id # NoSession THEN " (session: " \o req.session_id \o ")"
                ELSE ""),
        req, None, None)

\* Lines 1922-1931
ValidationSessionError(req) ==
    ValidationResult("error",
        "Session error: Session " \o req.session_id \o " not found", req, None, None)

\* Lines 2008-2016: the spawn failed
ValidationFailed(req) ==
    ValidationResult("error",
        "Validation failed: [Errno 2] No such file or directory: 'bash'", req, None, None)

\* Lines 1985-2006
ValidationComplete(req, session_dir, returncode) ==
    ValidationResult("complete",
        IF returncode = 0
        THEN "Package " \o req.package_name \o " validation successful"
        ELSE "Package " \o req.package_name \o " validation failed (return code: "
                 \o ToString(returncode) \o ")",
        req, Some(returncode = 0),
        Some(Join(ValidationCmd(req, session_dir), " ")))

ValidationRequests ==
    [package_name : PackageNames, package_type : PackageTypes,
     installation_digest : ValidationDigests, custom_validation_script : CustomScripts,
     session_id : SessionArgs]
NoValidation ==
    [package_name |-> "", package_type |-> "", installation_digest |-> NoneDigest,
     custom_validation_script |-> NoScript, session_id |-> NoSession]
NoValChild == [stdout |-> <<>>, stderr |-> <<>>, rc |-> 0, spawned |-> FALSE]
ValidationChildren ==
    {[stdout |-> o, stderr |-> e, rc |-> r, spawned |-> TRUE] :
        o \in ChannelOutputs("stdout", MaxValOut), e \in ChannelOutputs("stderr", MaxValErr),
        r \in {0, 1}}

IdleValidate ==
    /\ valPc = "idle"
    /\ valReq = NoValidation
    /\ valEvents = <<>>
    /\ valQueue = <<>>
    /\ valChild = NoValChild
    /\ valRd = [ch \in Channels |-> 0]
    /\ valTask = [ch \in Channels |-> "none"]

ValUnchanged ==
    UNCHANGED <<disk, cmdVars, streamVars, digestVars, infoVars, logVars, frameVars, gitVars,
                callVars>>

\* Lines 1856-1870: the call, up to the first yield
ValidateStreamCall ==
    /\ valPc = "idle"
    /\ \E req \in ValidationRequests :
          /\ valReq' = req
          /\ valEvents' = <<ValidationStart(req)>>
    /\ valPc' = "started"
    /\ UNCHANGED <<sessions, valQueue, valChild, valRd, valTask>>
    /\ ValUnchanged

\* Lines 1872-1902: the load spec cannot be built; the KeyError leaves the generator.
ValidateLoadSpecRaises ==
    /\ valPc = "started"
    /\ LoadSpecRaises(valReq)
    /\ valPc' = "raised"
    /\ UNCHANGED <<sessions, valReq, valEvents, valQueue, valChild, valRd, valTask>>
    /\ ValUnchanged

\* Lines 1905-1931: the session is not found
ValidateSessionError ==
    /\ valPc = "started"
    /\ ~LoadSpecRaises(valReq)
    /\ valReq.session_id # NoSession
    /\ ~SessionResolvable(sessions, disk, valReq.session_id)
    /\ valEvents' = Append(valEvents, ValidationSessionError(valReq))
    /\ valPc' = "done"
    /\ UNCHANGED <<sessions, valReq, valQueue, valChild, valRd, valTask>>
    /\ ValUnchanged

ValidateCommandBuilt ==
    /\ valPc = "started"
    /\ ~LoadSpecRaises(valReq)
    /\ valReq.session_id # NoSession => SessionResolvable(sessions, disk, valReq.session_id)
    /\ sessions' = IF valReq.session_id # NoSession
                   THEN RegistryAfterGet(sessions, disk, valReq.session_id)
                   ELSE sessions

\* Lines 1905-1967: the command is built, the child spawned and the readers started
ValidateSpawn ==
    /\ ValidateCommandBuilt
    /\ \E c \in ValidationChildren : valChild' = c
    /\ valTask' = [ch \in Channels |-> "running"]
    /\ valPc' = "drain"
    /\ UNCHANGED <<valReq, valEvents, valQueue, valRd>>
    /\ ValUnchanged

\* Lines 1939-1944 and 2008-2016: create_subprocess_exec raises
ValidateSpawnFails ==
    /\ ValidateCommandBuilt
    /\ valEvents' = Append(valEvents, ValidationFailed(valReq))
    /\ valPc' = "done"
    /\ UNCHANGED <<valReq, valQueue, valChild, valRd, valTask>>
    /\ ValUnchanged

\* Lines 1951-1965: read_stream takes one line; a line that does not decode ends
\* the task with the exception, end of stream ends it normally.
ValidateReadLine ==
    /\ valPc = "drain"
    /\ \E ch \in Channels :
          /\ valTask[ch] = "running"
          /\ IF valRd[ch] = Len(valChild[ch])
             THEN /\ valTask' = [valTask EXCEPT ![ch] = "done"]
                  /\ UNCHANGED <<valRd, valQueue>>
             ELSE LET line == valChild[ch][valRd[ch] + 1] IN
                  /\ valRd' = [valRd EXCEPT ![ch] = @ + 1]
                  /\ IF line = BadBytes
                     THEN /\ valTask' = [valTask EXCEPT ![ch] = "failed"]
                          /\ UNCHANGED valQueue
                     ELSE /\ valQueue' = Append(valQueue,
                                ValidationResult(StreamType(ch), RStrip(line), valReq,
                                                 None, None))
                          /\ UNCHANGED valTask
    /\ UNCHANGED <<sessions, valPc, valReq, valEvents, valChild>>
    /\ ValUnchanged

\* Lines 1971-1976: an entry of the queue is yielded
ValidateDrainGet ==
    /\ valPc = "drain"
    /\ valQueue # <<>>
    /\ valEvents' = Append(valEvents, Head(valQueue))
    /\ valQueue' = Tail(valQueue)
    /\ UNCHANGED <<sessions, valPc, valReq, valChild, valRd, valTask>>
    /\ ValUnchanged

\* Lines 1977-1980: the queue stayed empty for the poll interval and both tasks are done
ValidateDrainBreak ==
    /\ valPc = "drain"
    /\ valQueue = <<>>
    /\ \A ch \in Channels : valTask[ch] \in {"done", "failed"}
    /\ valPc' = "wait"
    /\ UNCHANGED <<sessions, valReq, valEvents, valQueue, valChild, valRd, valTask>>
    /\ ValUnchanged

\* Lines 1982-2006: process.wait() returns and the completion is yielded
ValidateComplete ==
    /\ valPc = "wait"
    /\ valEvents' = Append(valEvents,
          ValidationComplete(valReq,
              GetSessionDir(sessions, disk, valReq.session_id), valChild.rc))
    /\ valPc' = "done"
    /\ UNCHANGED <<sessions, valReq, valQueue, valChild, valRd, valTask>>
    /\ ValUnchanged

(***************************************************************************)
(* get_package_checksums and the versions query of get_package_versions:   *)
(* the command is run in the session and possibly once more outside it     *)
(***************************************************************************)
QueryKinds == {"checksums", "versions"}
QueryRequests == [kind : QueryKinds, package_name : {"zlib"}, session_id : SessionArgs]
NoQuery == [kind |-> "none", package_name |-> "", session_id |-> NoSession]

\* Line 1558 and line 1465: cmd
QueryCommand(req) ==
    IF req.kind = "checksums" THEN <<SpackCmd, "checksum", "-b", req.package_name>>
    ELSE <<SpackCmd, "versions", req.package_name>>

\* Line 1559 gives timeout=600; line 1466 leaves the default.
ChecksumTimeout == 600
QueryTimeout(req) == IF req.kind = "checksums" THEN ChecksumTimeout ELSE DefaultTimeout

\* What _run_command_base may return for such a command.
QueryStderrs ==
    {"", "==> Error: Package 'zlib' not found.", "==> Error: No such command",
     "/bin/sh: singularity: not found"}
QueryRunResults(req) ==
    {[returncode |-> 0, stdout |-> "1.3.1  1.3  1.2.13", stderr |-> "", success |-> TRUE]}
    \cup {[returncode |-> 1, stdout |-> "", stderr |-> e, success |-> FALSE] : e \in QueryStderrs}
    \cup {TimedOutResult(QueryTimeout(req))}

\* One call of _run_spack_command as the query made it.
QueryRun(req, sid, result) ==
    [session_id |-> sid, argv |-> BuildCommand(sid, QueryCommand(req)),
     timeout |-> QueryTimeout(req), result |-> result]

\* Lines 1568-1576 and 1477-1486: the structured failure
QueryFailure(req, result) ==
    [success |-> FALSE,
     message |->
         (IF req.kind = "checksums" THEN "Failed to get checksums for "
          ELSE "Failed to get versions for ") \o req.package_name \o ": " \o result.stderr,
     error |-> result.stderr]

\* The output of a successful run goes on to the parser.
QueryParsed(result) == [success |-> TRUE, message |-> "", error |-> ""]
NoQueryResult == [success |-> FALSE, message |-> "", error |-> "none"]

IdleQuery ==
    /\ queryPc = "idle"
    /\ queryReq = NoQuery
    /\ runs = <<>>
    /\ queryResult = NoQueryResult

QueryUnchanged ==
    UNCHANGED <<disk, cmdVars, streamVars, digestVars, infoVars, logVars, frameVars, gitVars,
                valVars, argReq, argInstall, argStream, installResult>>

\* Lines 1559 and 1466: the first run, in the session when one is given.  An id
\* that does not resolve makes _run_spack_command raise, and the query with it.
QueryFirstRun ==
    /\ queryPc = "called"
    /\ IF RaisesValueError(sessions, disk, queryReq.session_id)
       THEN /\ queryPc' = "raised"
            /\ UNCHANGED <<runs, sessions>>
       ELSE /\ \E result \in QueryRunResults(queryReq) :
                  runs' = <<QueryRun(queryReq, queryReq.session_id, result)>>
            /\ sessions' = IF queryReq.session_id # NoSession
                           THEN RegistryAfterGet(sessions, disk, queryReq.session_id)
                           ELSE sessions
            /\ queryPc' = "ran"
    /\ UNCHANGED <<queryReq, queryResult>>
    /\ QueryUnchanged

\* Lines 1563 and 1469: the test that decides on the second run.
RetryWanted(req, result) ==
    /\ ~result.success
    /\ req.session_id # NoSession
    /\ Contains(result.stderr, "not found")

\* Mutant: the second run is made in the session again.
QueryRetriesInSession ==
    /\ queryPc = "ran"
    /\ RetryWanted(queryReq, runs[1].result)
    /\ \E result \in QueryRunResults(queryReq) :
          runs' = Append(runs, QueryRun(queryReq, queryReq.session_id, result))
    /\ queryPc' = "reran"
    /\ UNCHANGED <<sessions, queryReq, queryResult>>
    /\ QueryUnchanged

\* Lines 1563-1569 and 1469-1475: the second run, with session_id=None.
QueryRetries ==
    /\ queryPc = "ran"
    /\ RetryWanted(queryReq, runs[1].result)
    /\ \E result \in QueryRunResults(queryReq) :
          runs' = Append(runs, QueryRun(queryReq, NoSession, result))
    /\ queryPc' = "reran"
    /\ UNCHANGED <<sessions, queryReq, queryResult>>
    /\ QueryUnchanged

\* Lines 1571-1579 and 1477-1486: a failed result is returned as it is; a
\* successful one is parsed.
QueryReturns ==
    /\ \/ queryPc = "ran" /\ ~RetryWanted(queryReq, runs[1].result)
       \/ queryPc = "reran"
    /\ queryResult' = IF runs[Len(runs)].result.success
                      THEN QueryParsed(runs[Len(runs)].result)
                      ELSE QueryFailure(queryReq, runs[Len(runs)].result)
    /\ queryPc' = "returned"
    /\ UNCHANGED <<sessions, queryReq, runs>>
    /\ QueryUnchanged

(***************************************************************************)
(* The argument vector of an install: install_package and                  *)
(* install_package_stream called with the same arguments                   *)
(***************************************************************************)
\* variants=None and variants=[] are both false in the tests of lines 454 and 521.
InstallVariants == {<<>>, <<"+shared">>, <<"+shared", "~pic">>}
InstallNames == {"zlib", "py-numpy"}
InstallRequests ==
    [package_name : InstallNames, version : Versions, variants : InstallVariants,
     session_id : SessionArgs]
NoInstallRequest ==
    [package_name |-> "", version |-> NoVersion, variants |-> <<>>, session_id |-> NoSession]

\* What stands for the vector before the call, and when the call ends without one.
NotCalled == <<"not called">>
ValueErrorRaised == <<"ValueError">>
SessionErrorYielded == <<"Session error">>

\* No install_package has returned
NoInstallResult ==
    [success |-> FALSE, message |-> "", install_digest |-> NoDigest, detailed_failed_log |-> None]

IdleCalls ==
    /\ argReq = NoInstallRequest
    /\ argInstall = NotCalled
    /\ argStream = NotCalled
    /\ installResult = NoInstallResult
    /\ IdleQuery

\* spec += f" {variant}" for each variant
RECURSIVE WithVariants(_, _)
WithVariants(spec, variants) ==
    IF variants = <<>> THEN spec
    ELSE WithVariants(spec \o " " \o Head(variants), Tail(variants))

\* Lines 450-456: spec of install_package
InstallPackageSpec(req) ==
    WithVariants(IF req.version # NoVersion THEN req.package_name \o "@" \o req.version
                 ELSE req.package_name,
                 req.variants)

\* Mutant: the variants are left out of the spec.
StreamInstallSpecWithoutVariants(req) ==
    IF req.version # NoVersion THEN req.package_name \o "@" \o req.version
    ELSE req.package_name

\* Lines 517-523: spec of install_package_stream
StreamInstallSpec(req) ==
    WithVariants(IF req.version # NoVersion THEN req.package_name \o "@" \o req.version
                 ELSE req.package_name,
                 req.variants)

\* Lines 460-462 and 159-172: install_package builds [spack, install, spec] and
\* _run_spack_command replaces the executable by the session's prefix.
InstallPackageVector(req, reg, dsk) ==
    IF RaisesValueError(reg, dsk, req.session_id) THEN ValueErrorRaised
    ELSE BuildCommand(req.session_id, <<SpackCmd, "install", InstallPackageSpec(req)>>)

\* Lines 537-553: install_package_stream builds the vector itself.
StreamInstallVector(req, reg, dsk) ==
    IF req.session_id # NoSession
    THEN IF SessionResolvable(reg, dsk, req.session_id)
         THEN SingularityPrefix(req.session_id) \o <<"install", StreamInstallSpec(req)>>
         ELSE SessionErrorYielded
    ELSE <<SpackCmd, "install", StreamInstallSpec(req)>>

CallsUnchanged ==
    UNCHANGED <<disk, cmdVars, streamVars, digestVars, infoVars, logVars, frameVars, gitVars,
                valVars>>

\* install_package up to the spawn of the child; get_session_dir registers a
\* session it recovers from the filesystem.
InstallPackageBuildsCommand ==
    /\ argReq # NoInstallRequest
    /\ argInstall = NotCalled
    /\ argInstall' = InstallPackageVector(argReq, sessions, disk)
    /\ sessions' = IF argReq.session_id # NoSession
                   THEN RegistryAfterGet(sessions, disk, argReq.session_id)
                   ELSE sessions
    /\ UNCHANGED <<argReq, argStream, installResult, queryVars>>
    /\ CallsUnchanged

\* install_package_stream up to the spawn of the child.
InstallStreamBuildsCommand ==
    /\ argReq # NoInstallRequest
    /\ argStream = NotCalled
    /\ argStream' = StreamInstallVector(argReq, sessions, disk)
    /\ sessions' = IF argReq.session_id # NoSession
                   THEN RegistryAfterGet(sessions, disk, argReq.session_id)
                   ELSE sessions
    /\ UNCHANGED <<argReq, argInstall, installResult, queryVars>>
    /\ CallsUnchanged

(***************************************************************************)
(* The service: session operations, one command or one streaming install.   *)
(***************************************************************************)
IdleService ==
    /\ sessions = {}
    /\ cmdPc = "idle"
    /\ cmdCall = NoCall
    /\ cmdResult = NoResult
    /\ pc = "idle"
    /\ streamSid = NoSession
    /\ streamCmd = <<>>
    /\ events = <<>>
    /\ queue = <<>>
    /\ all_output = <<>>
    /\ child = NoChild
    /\ rd = [ch \in Channels |-> 0]
    /\ task = [ch \in Channels |-> "none"]
    /\ ticks = 0

\* No second call
NoEdit == [kind |-> "none", header |-> "", lines |-> <<>>]
IdleFrame ==
    /\ edit = NoEdit
    /\ earlier = NoPackage

IdleDigest ==
    /\ digText = ""
    /\ digPc = "idle"
    /\ digPrimary = NoDigest
    /\ digRobust = NoDigest
    /\ digInstall = NoDigest

Init ==
    /\ IdleService
    /\ disk \in SUBSET SessionIds
    /\ IdleDigest
    /\ IdleFrame
    /\ IdleGit
    /\ IdleValidate
    /\ IdleCalls
    /\ IdleInfo
    /\ IdleLogs

Next ==
    \/ CreateSession
    \/ DeleteSession
    \/ RunSpackCommand
    \/ RunCommandReturns
    \/ StreamStart
    \/ StreamBuildCommand
    \/ StreamSpawn
    \/ StreamSpawnFails
    \/ ReadStdoutLine
    \/ ReadStderrLine
    \/ ReadStdoutEof
    \/ ReadStderrEof
    \/ DrainGet
    \/ DrainTimeout
    \/ StreamComplete
    \/ StreamWaitPending
    \/ ConsumerStops

Spec == Init /\ [][Next]_vars

(***************************************************************************)
(* The digest extractors applied to every output text of the bound.        *)
(***************************************************************************)
InitDigest ==
    /\ IdleService
    /\ IdleFrame
    /\ IdleGit
    /\ IdleValidate
    /\ IdleCalls
    /\ disk = {}
    /\ digText \in OutputTexts
    /\ digPc = "input"
    /\ digPrimary = NoDigest
    /\ digRobust = NoDigest
    /\ digInstall = NoDigest
    /\ IdleInfo
    /\ IdleLogs

NextDigest ==
    \/ ExtractDigest
    \/ ExtractDigestRobust
    \/ ReportInstallDigest

SpecDigest == InitDigest /\ [][NextDigest]_vars

(***************************************************************************)
(* get_package_info called with and without a session, over the command    *)
(* runner.                                                                 *)
(***************************************************************************)
NextGetInfo ==
    \/ CreateSession
    \/ DeleteSession
    \/ GetPackageInfoCall
    \/ RunCommandReturns
    \/ GetPackageInfoResumes
    \/ InfoCommandFailed
    \/ ParseBegin
    \/ ParseOtherLine
    \/ ParseReturn

SpecGetInfo == Init /\ [][NextGetInfo]_vars

(***************************************************************************)
(* get_package_info applied to every result of the info command.           *)
(***************************************************************************)
InitInfo ==
    /\ IdleService
    /\ disk = {}
    /\ IdleDigest
    /\ IdleFrame
    /\ IdleGit
    /\ IdleValidate
    /\ IdleCalls
    /\ IdleLogs
    /\ infoPc = "called"
    /\ infoReq \in InfoRequests
    /\ infoLines = <<>>
    /\ lineNo = 0
    /\ acc = EmptyAcc
    /\ infoResult = NoPackage
    /\ recognised = {}
    /\ consumed = {}
    /\ passes = 0

NextInfo ==
    \/ InfoCommandFailed
    \/ ParseBegin
    \/ ParsePackageType
    \/ ParseOtherLine
    \/ ParseDescription
    \/ ParseHomepage
    \/ ParsePreferredVersion
    \/ ParseSafeVersions
    \/ ParseDeprecatedVersions
    \/ ParseVariants
    \/ ParseBuildDependencies
    \/ ParseLinkDependencies
    \/ ParseRunDependencies
    \/ ParseLicenses
    \/ ParseReturn

SpecInfo == InitInfo /\ [][NextInfo]_vars

(***************************************************************************)
(* get_package_info applied to texts with one "Variants:" section: the     *)
(* package line, the header, continuation lines, and possibly a section    *)
(* after them.                                                             *)
(***************************************************************************)
VariantLineCatalogue ==
    { "    build_system [bundle]  bundle",
      "    shared [on]  on, off",
      "    debug [off]  Enable debugging",
      "    [on]  on, off",
      "        Build shared libraries",
      "        when @1.20.0:",
      "        when +shared",
      "" }
VariantSections ==
    UNION {[1..n -> VariantLineCatalogue] : n \in 0..MaxVariantLines}
VariantTexts ==
    {JoinLines(<<"BundlePackage:   dummy-test", "Variants:">> \o ls \o trailer) :
        ls \in VariantSections, trailer \in {<<>>, <<"Licenses: MIT">>}}

InitVariants ==
    /\ IdleService
    /\ disk = {}
    /\ IdleDigest
    /\ IdleFrame
    /\ IdleGit
    /\ IdleValidate
    /\ IdleCalls
    /\ IdleLogs
    /\ infoPc = "called"
    /\ infoReq \in [package_name : PackageNames, version : {NoVersion},
                     success : {TRUE}, stdout : VariantTexts]
    /\ infoLines = <<>>
    /\ lineNo = 0
    /\ acc = EmptyAcc
    /\ infoResult = NoPackage
    /\ recognised = {}
    /\ consumed = {}
    /\ passes = 0

NextVariants ==
    \/ ParseBegin
    \/ ParsePackageType
    \/ ParseVariants
    \/ ParseLicenses
    \/ ParseReturn

SpecVariants == InitVariants /\ [][NextVariants]_vars

(***************************************************************************)
(* get_package_info applied to texts made of dependency sections: the      *)
(* package line, then headers and continuation lines in any order, and     *)
(* possibly a section after them.                                          *)
(***************************************************************************)
DependencyLineCatalogue ==
    { "Build Dependencies:",
      "Link Dependencies:",
      "Run Dependencies:",
      "    zlib cmake",
      "    python",
      "    None",
      "" }
DependencySections ==
    UNION {[1..n -> DependencyLineCatalogue] : n \in 0..MaxDepLines}
DependencyTexts ==
    {JoinLines(<<"BundlePackage:   dummy-test">> \o ls \o trailer) :
        ls \in DependencySections, trailer \in {<<>>, <<"Licenses: MIT">>}}

InitDeps ==
    /\ IdleService
    /\ disk = {}
    /\ IdleDigest
    /\ IdleFrame
    /\ IdleGit
    /\ IdleValidate
    /\ IdleCalls
    /\ IdleLogs
    /\ infoPc = "called"
    /\ infoReq \in [package_name : PackageNames, version : {NoVersion},
                     success : {TRUE}, stdout : DependencyTexts]
    /\ infoLines = <<>>
    /\ lineNo = 0
    /\ acc = EmptyAcc
    /\ infoResult = NoPackage
    /\ recognised = {}
    /\ consumed = {}
    /\ passes = 0

NextDeps ==
    \/ ParseBegin
    \/ ParsePackageType
    \/ ParseOtherLine
    \/ ParseBuildDependencies
    \/ ParseLinkDependencies
    \/ ParseRunDependencies
    \/ ParseLicenses
    \/ ParseReturn

SpecDeps == InitDeps /\ [][NextDeps]_vars

(***************************************************************************)
(* get_package_info called twice: on a text, and on the same text with one *)
(* unrecognised line reworded, one section removed, or one section header  *)
(* renamed to a header the parser does not know.                           *)
(***************************************************************************)
UnknownHeader == "Unknown section:"

\* lines[i] (i counted from 0) is not indented, not blank, and takes no branch
IsUnrecognised(lines, i) ==
    /\ i > 0
    /\ ~IsContinuation(LineAt(lines, i))
    /\ Branch(lines, i) = ""

\* lines[i] is a section header that is not indented
OpensSection(lines, i) ==
    /\ i > 0
    /\ ~IsContinuation(LineAt(lines, i))
    /\ Branch(lines, i) # ""

\* lines without lines[a:b]
WithoutLines(lines, a, b) == SubSeq(lines, 1, a) \o SubSeq(lines, b + 1, Len(lines))

\* The second call: get_package_info starts again on the edited text.
CallAgain(kind, header, lines) ==
    /\ infoPc = "done"
    /\ infoReq.success
    /\ edit = NoEdit
    /\ edit' = [kind |-> kind, header |-> header, lines |-> infoLines]
    /\ earlier' = infoResult
    /\ infoReq' = [infoReq EXCEPT !.stdout = JoinLines(lines)]
    /\ infoPc' = "called"
    /\ infoLines' = <<>>
    /\ lineNo' = 0
    /\ acc' = EmptyAcc
    /\ infoResult' = NoPackage
    /\ recognised' = {}
    /\ consumed' = {}
    /\ passes' = 0
    /\ UNCHANGED <<sessVars, cmdVars, streamVars, digestVars, logVars, gitVars, valVars, callVars>>

\* The tool's text with other words on a line the parser has no branch for
CallWithOtherUnrecognisedLine ==
    \E i \in 1..(Len(infoLines) - 1) :
        /\ IsUnrecognised(infoLines, i)
        /\ CallAgain("line", "", [infoLines EXCEPT ![i + 1] = UnknownHeader])

\* The tool's text without one section: its header and the indented or blank
\* lines under it
CallWithoutSection ==
    \E i \in 1..(Len(infoLines) - 1) :
        /\ OpensSection(infoLines, i)
        /\ CallAgain("missing", Branch(infoLines, i),
                     WithoutLines(infoLines, i, ContinuationEnd(infoLines, i + 1)))

\* The tool's text with one section header renamed
CallWithRenamedSection ==
    \E i \in 1..(Len(infoLines) - 1) :
        /\ OpensSection(infoLines, i)
        /\ CallAgain("renamed", Branch(infoLines, i),
                     [infoLines EXCEPT ![i + 1] = UnknownHeader])

FrameLineCatalogue ==
    { "Description: A dummy package",
      "Homepage: https://example.com/dummy-test",
      "Preferred version:",
      "Safe versions:",
      "Build Dependencies:",
      "Licenses:",
      "Licenses: MIT",
      "Maintainers: alice",
      "    1.0.0  https://example.com/dummy-test-1.0.0.tar.gz",
      "    zlib cmake",
      "" }
FrameTexts ==
    {JoinLines(<<"BundlePackage:   dummy-test">> \o ls) :
        ls \in UNION {[1..n -> FrameLineCatalogue] : n \in 0..MaxFrameLines}}

InitFrame ==
    /\ IdleService
    /\ disk = {}
    /\ IdleDigest
    /\ IdleFrame
    /\ IdleGit
    /\ IdleValidate
    /\ IdleCalls
    /\ IdleLogs
    /\ infoPc = "called"
    /\ infoReq \in [package_name : PackageNames, version : {NoVersion},
                     success : {TRUE}, stdout : FrameTexts]
    /\ infoLines = <<>>
    /\ lineNo = 0
    /\ acc = EmptyAcc
    /\ infoResult = NoPackage
    /\ recognised = {}
    /\ consumed = {}
    /\ passes = 0

NextFrame ==
    \/ ParseBegin
    \/ ParsePackageType
    \/ ParseOtherLine
    \/ ParseDescription
    \/ ParseHomepage
    \/ ParsePreferredVersion
    \/ ParseSafeVersions
    \/ ParseBuildDependencies
    \/ ParseLicenses
    \/ ParseReturn
    \/ CallWithOtherUnrecognisedLine
    \/ CallWithoutSection
    \/ CallWithRenamedSection

SpecFrame == InitFrame /\ [][NextFrame]_vars

(***************************************************************************)
(* create_pull_request called once, with any session directories on disk.  *)
(***************************************************************************)
InitGit ==
    /\ IdleService
    /\ disk \in SUBSET SessionIds
    /\ IdleDigest
    /\ IdleFrame
    /\ IdleGit
    /\ IdleValidate
    /\ IdleCalls
    /\ IdleInfo
    /\ IdleLogs

NextGit ==
    \/ CreatePullRequestCall
    \/ CloneReturns
    \/ CheckoutReturns
    \/ AddReturns
    \/ StatusReturns
    \/ CommitReturns
    \/ PushReturns

SpecGit == InitGit /\ [][NextGit]_vars

(***************************************************************************)
(* validate_package_stream called once, with any session directories on    *)
(* disk.                                                                   *)
(***************************************************************************)
InitValidate ==
    /\ IdleService
    /\ disk \in SUBSET SessionIds
    /\ IdleDigest
    /\ IdleFrame
    /\ IdleGit
    /\ IdleValidate
    /\ IdleCalls
    /\ IdleInfo
    /\ IdleLogs

NextValidate ==
    \/ ValidateStreamCall
    \/ ValidateLoadSpecRaises
    \/ ValidateSessionError
    \/ ValidateSpawn
    \/ ValidateSpawnFails
    \/ ValidateReadLine
    \/ ValidateDrainGet
    \/ ValidateDrainBreak
    \/ ValidateComplete

SpecValidate == InitValidate /\ [][NextValidate]_vars

(***************************************************************************)
(* The two installs of one request                                         *)
(***************************************************************************)
\* The directories of sessions made before the service started are on the disk
\* without a registry entry.
InitVector ==
    /\ disk \in SUBSET SessionIds
    /\ sessions \in SUBSET disk
    /\ cmdPc = "idle"
    /\ cmdCall = NoCall
    /\ cmdResult = NoResult
    /\ pc = "idle"
    /\ streamSid = NoSession
    /\ streamCmd = <<>>
    /\ events = <<>>
    /\ queue = <<>>
    /\ all_output = <<>>
    /\ child = NoChild
    /\ rd = [ch \in Channels |-> 0]
    /\ task = [ch \in Channels |-> "none"]
    /\ ticks = 0
    /\ IdleDigest
    /\ IdleInfo
    /\ IdleLogs
    /\ IdleFrame
    /\ IdleGit
    /\ IdleValidate
    /\ argReq \in InstallRequests
    /\ argInstall = NotCalled
    /\ argStream = NotCalled
    /\ installResult = NoInstallResult
    /\ IdleQuery

NextVector ==
    \/ InstallPackageBuildsCommand
    \/ InstallStreamBuildsCommand

SpecVector == InitVector /\ [][NextVector]_vars

(***************************************************************************)
(* One query of checksums or versions, for any registry and disk           *)
(***************************************************************************)
InitQuery ==
    /\ disk \in SUBSET SessionIds
    /\ sessions \in SUBSET disk
    /\ cmdPc = "idle"
    /\ cmdCall = NoCall
    /\ cmdResult = NoResult
    /\ pc = "idle"
    /\ streamSid = NoSession
    /\ streamCmd = <<>>
    /\ events = <<>>
    /\ queue = <<>>
    /\ all_output = <<>>
    /\ child = NoChild
    /\ rd = [ch \in Channels |-> 0]
    /\ task = [ch \in Channels |-> "none"]
    /\ ticks = 0
    /\ IdleDigest
    /\ IdleInfo
    /\ IdleLogs
    /\ IdleFrame
    /\ IdleGit
    /\ IdleValidate
    /\ argReq = NoInstallRequest
    /\ argInstall = NotCalled
    /\ argStream = NotCalled
    /\ installResult = NoInstallResult
    /\ queryPc = "called"
    /\ queryReq \in QueryRequests
    /\ runs = <<>>
    /\ queryResult = NoQueryResult

NextQuery ==
    \/ QueryFirstRun
    \/ QueryRetries
    \/ QueryReturns

SpecQuery == InitQuery /\ [][NextQuery]_vars

(***************************************************************************)
(* One streaming install whose consumer keeps iterating: the event loop    *)
(* runs the generator whenever it can take a step.                         *)
(***************************************************************************)
NextDrain ==
    \/ StreamStart
    \/ StreamBuildCommand
    \/ StreamSpawn
    \/ StreamSpawnFails
    \/ ReadStdoutLine
    \/ ReadStderrLine
    \/ ReadStdoutEof
    \/ ReadStderrEof
    \/ DrainGet
    \/ DrainTimeout
    \/ StreamComplete
    \/ StreamWaitPending

SpecDrain ==
    /\ Init
    /\ [][NextDrain]_vars
    /\ WF_vars(DrainGet)
    /\ WF_vars(DrainTimeout)
    /\ WF_vars(StreamComplete)

(***************************************************************************)
(* Properties of the streaming install                                     *)
(***************************************************************************)
TerminalErrors == {SessionErrorEvent, FailedEvent}
IsTerminal(e) == e.type = "complete" \/ e \in TerminalErrors
Last(seq) == seq[Len(seq)]
Count(seq, P(_)) == Cardinality({i \in 1..Len(seq) : P(seq[i])})
IsStart(e) == e.type = "start"
IsOutput(e) == e.type = "output"
IsLineError(e) == e.type = "error" /\ e \notin TerminalErrors
IsComplete(e) == e.type = "complete"

\* C1: every run of install_package_stream yields `start` first and only once;
\* nothing follows a terminal event; a finished run ends with exactly one terminal
\* event, which is `complete`, or `error` only when the session could not be
\* resolved or the process could not be spawned (no child exists then).
C1_StartThenOneTerminal ==
    /\ pc # "idle" => (events # <<>> /\ IsStart(events[1]))
    /\ Count(events, IsStart) <= 1
    /\ \A i \in 1..(Len(events) - 1) : ~IsTerminal(events[i])
    /\ pc = "done" <=> (events # <<>> /\ IsTerminal(Last(events)))
    /\ pc = "done" => Count(events, IsTerminal) = 1
    /\ (pc = "done" /\ Last(events) \in TerminalErrors) => child = NoChild
    /\ (pc = "done" /\ Last(events) = SessionErrorEvent) => streamSid # NoSession

C1_Witness ==
    /\ pc = "done"
    /\ IsComplete(Last(events))
    /\ Len(events) = MaxOut + MaxErr + 2

\* The data of the events (or queue entries) of one channel, in order.
DataOf(seq, ch) ==
    LET sel == SelectSeq(seq, LAMBDA e : e.type = StreamType(ch) /\ ~IsTerminal(e))
    IN [i \in 1..Len(sel) |-> sel[i].data]

\* The lines the reader of a channel has read and decoded, in order.
LinesRead(ch) == SelectSeq(SubSeq(child[ch], 1, rd[ch]), LAMBDA l : l # BadBytes)

C3_StreamEndsWithinMaximumDuration ==
    ticks = MaxTicks => pc = "done"

(***************************************************************************)
(* Properties of the session-aware command builder                         *)
(***************************************************************************)
\* C4: with a session id that get_session_dir cannot resolve no child process is
\* spawned: _run_spack_command raises before the runner is entered, and
\* install_package_stream yields `start`, one `error`, and ends without a child.
C4_UnresolvedSessionStep ==
    /\ (cmdPc = "idle" /\ cmdPc' # "idle"
          /\ cmdCall'.sid # NoSession /\ ~SessionResolvable(sessions, disk, cmdCall'.sid))
       => (cmdPc' = "raised" /\ ~cmdCall'.ran /\ cmdCall'.argv = <<>>)
    /\ cmdPc = "raised" => (cmdPc' = "raised" /\ cmdCall' = cmdCall)
    /\ (pc = "started" /\ pc' \notin {"started", "abandoned"}
          /\ streamSid # NoSession /\ ~SessionResolvable(sessions, disk, streamSid))
       => (pc' = "done" /\ events' = <<StartEvent, SessionErrorEvent>> /\ child' = NoChild)
    /\ (pc = "started" /\ pc' = "abandoned") => child' = NoChild
    /\ pc = "done" => (pc' = "done" /\ child' = child /\ events' = events)

C4_NoSpawnForUnresolvedSession == [][C4_UnresolvedSessionStep]_vars

C4_Witness ==
    /\ pc = "done"
    /\ streamSid \in SessionIds
    /\ events = <<StartEvent, SessionErrorEvent>>
    /\ child = NoChild

\* C5: without a session id the vector given to the runner is the base vector.
C5_DirectInvocationIsIdentity ==
    (cmdPc \in {"running", "done"} /\ cmdCall.sid = NoSession)
       => (cmdCall.ran /\ cmdCall.argv = cmdCall.base)

C5_Witness ==
    /\ cmdPc = "done"
    /\ cmdCall.sid = NoSession
    /\ cmdCall.base = <<SpackCmd, "info", "zlib">>
    /\ cmdCall.argv = <<SpackCmd, "info", "zlib">>

\* C6: with a resolvable session the vector given to the runner is the sandbox
\* prefix, unaltered, followed by the base vector without its first token when
\* that token is the tool's own path, and by the whole base vector otherwise.
PrefixLen == Len(SingularityPrefix("s1"))
C6_Dropped(base) == IF base[1] = SpackCmd THEN 1 ELSE 0
C6_SandboxedInvocationShape ==
    (cmdPc \in {"running", "done"} /\ cmdCall.sid # NoSession)
       => /\ cmdCall.ran
          /\ Len(cmdCall.argv) = PrefixLen + Len(cmdCall.base) - C6_Dropped(cmdCall.base)
          /\ SubSeq(cmdCall.argv, 1, PrefixLen) = SingularityPrefix(cmdCall.sid)
          /\ cmdCall.argv[PrefixLen] = "/home/ubuntu/spack.sif"
          /\ \A i \in (1 + C6_Dropped(cmdCall.base))..Len(cmdCall.base) :
                cmdCall.argv[PrefixLen + i - C6_Dropped(cmdCall.base)] = cmdCall.base[i]

C6_Witness ==
    /\ cmdPc = "running"
    /\ cmdCall.sid = "s2"
    /\ cmdCall.base = <<SpackCmd, "info", SpackCmd>>
    /\ Len(cmdCall.argv) = PrefixLen + 2
    /\ cmdCall.argv[PrefixLen + 2] = SpackCmd

(***************************************************************************)
(* Claims about the digest extractors.  They are stated on the lines of    *)
(* the text, independently of the patterns' matching.                      *)
(***************************************************************************)
TextLines(text) == SplitOn(NormalizeNewlines(text), "\n")

\* A marker line: the marker, whitespace, then at least one more character.
IsMarkerLine(line) == StartsWith(line, InstallMarker \o " ") /\ Len(Strip(line)) > Len(InstallMarker)

\* The path of a marker line: its first whitespace-delimited field after the marker.
MarkerPath(line) == SplitWs(line)[2]

\* The candidate token of a marker line: the last "-"-separated field of the final
\* path segment, "" when that segment has no "-".
CandidateOf(line) ==
    LET segments == SplitOn(MarkerPath(line), "/")
        fields == SplitOn(segments[Len(segments)], "-")
    IN IF Len(fields) > 1 THEN fields[Len(fields)] ELSE ""

IsValidToken(tok) == Len(tok) = 32 /\ \A i \in 1..Len(tok) : At(tok, i) \in AlnumChars

MarkerLinesOf(text) == SelectSeq(TextLines(text), IsMarkerLine)

\* Every marker line of the text is "[+] <absolute path>" and nothing more.
PlainMarkers(text) == \A i \in 1..Len(MarkerLinesOf(text)) : MarkerLinesOf(text)[i] \in MarkerLines

\* The marker occurs in the text only in such lines.
OnlyPlainMarkers(text) ==
    \A i \in 1..Len(TextLines(text)) :
        Contains(TextLines(text)[i], InstallMarker) => TextLines(text)[i] \in MarkerLines

LastMarkerLine(text) == MarkerLinesOf(text)[Len(MarkerLinesOf(text))]

\* C7: when the markers of the text are one or several plain "[+] <path>" lines,
\* both extractors decide on the last of them: if its final path segment ends in
\* a valid 32-character token, that token is the digest returned (A then B gives
\* B), whatever the earlier marker lines carry.
C7_LastMarkerWins ==
    (/\ digPc = "done"
     /\ MarkerLinesOf(digText) # <<>>
     /\ OnlyPlainMarkers(digText)
     /\ IsValidToken(CandidateOf(LastMarkerLine(digText))))
    => /\ digPrimary = CandidateOf(LastMarkerLine(digText))
       /\ digRobust = CandidateOf(LastMarkerLine(digText))
       /\ digInstall = CandidateOf(LastMarkerLine(digText))

C7_Witness ==
    /\ digPc = "done"
    /\ digText = "[+] /opt/spack/pkgA-1.0-" \o TokA \o "\n" \o "[+] /opt/spack/pkgB-2.0-" \o TokB
    /\ digPrimary = TokB
    /\ digRobust = TokB

C9_DescriptorAlwaysReturned ==
    /\ (consumed \cup recognised) \subseteq 0..(Len(infoLines) - 1)
    /\ infoPc = "parse" => lineNo <= Len(infoLines) + 1
    /\ infoPc = "done" =>
        /\ \A v \in Range(infoResult.preferred_version) \cup Range(infoResult.safe_versions)
                    \cup Range(infoResult.deprecated_versions) : v.version # ""
        /\ \A v \in Range(infoResult.variants) : v.name # ""
        /\ infoResult.name = infoReq.package_name
        /\ infoResult.description # ""
        /\ ~infoReq.success =>
            /\ infoResult.description = "Package information unavailable"
            /\ infoResult.variants = <<>>
            /\ infoResult.dependencies = <<>>
            /\ infoResult.version = (IF infoReq.version # "" THEN infoReq.version ELSE "unknown")

C9_Witness ==
    /\ infoPc = "done"
    /\ ~infoReq.success
    /\ infoReq.stdout = "Variants:\n    build_system [bundle]  bundle\n    zlib cmake"
    /\ infoResult.description = "Package information unavailable"
    /\ infoResult.variants = <<>>

\* A section header at zero indentation
IsSectionHeader(l) == \E k \in 1..Len(SectionHeaders) : StartsWith(l, SectionHeaders[k])

\* C10: a section reads only indented or blank lines as its content, and every
\* section header at zero indentation after the first line is recognised as a
\* header and never read as the content of the section before it, an empty
\* 'Preferred version:' or 'Licenses:' section included.
C10_HeadersNeverConsumed ==
    /\ \A k \in consumed : IsContinuation(LineAt(infoLines, k))
    /\ infoPc = "done" /\ infoReq.success =>
        \A k \in 1..(Len(infoLines) - 1) :
            IsSectionHeader(LineAt(infoLines, k)) => k \in recognised /\ k \notin consumed

\* A line with a bracketed span: a "[" and a "]" after it
HasBracketedSpan(l) ==
    Find(l, "[") # 0 /\ Find(From(l, Find(l, "[") + 1), "]") # 0

\* The continuation lines that start a variant, in input order
VariantStarts == SelectSeq(infoLines, LAMBDA l : StartsWith(l, "    ") /\ HasBracketedSpan(l))

\* The text before the brackets
NameBeforeBrackets(l) == Strip(SubSeq(l, 1, Find(l, "[") - 1))

\* C11: every line of the Variants section that starts a variant (contains a
\* bracketed span) contributes exactly one variant to the result, in input
\* order: the variant being accumulated is flushed once, so none is in the
\* result twice and none is dropped.
C11_OneVariantPerStartingLine ==
    infoPc = "done" /\ infoReq.success =>
        /\ Len(infoResult.variants) = Len(VariantStarts)
        /\ \A k \in 1..Len(VariantStarts) :
               k <= Len(infoResult.variants)
                   => infoResult.variants[k].name = NameBeforeBrackets(VariantStarts[k])

\* The stripped continuation lines of the section whose header is at position p
SectionLines(p) == StrippedLines(infoLines, p + 1, ContinuationEnd(infoLines, p + 1))

\* The version entries the lines of the sections of `header` stand for, from
\* position p on: one per line that is not blank and not "None", in input order
RECURSIVE RefsFrom(_, _)
RefsFrom(header, p) ==
    IF p >= Len(infoLines) THEN <<>>
    ELSE (IF p \in recognised /\ Branch(infoLines, p) = header
          THEN VersionInfos(SelectSeq(SectionLines(p), IsValueLine))
          ELSE <<>>) \o RefsFrom(header, p + 1)

\* C12: in the version sections every continuation line that is not blank and
\* not the literal "None" yields one version entry, labelled with the line's
\* first token and carrying the second token as URL when there is one, in input
\* order; "None" lines yield nothing and no entry has an empty label.
C12_VersionRefPerLine ==
    infoPc = "done" /\ infoReq.success =>
        /\ infoResult.safe_versions = RefsFrom("Safe versions:", 0)
        /\ infoResult.deprecated_versions = RefsFrom("Deprecated versions:", 0)
        /\ \A v \in Range(infoResult.preferred_version) \cup Range(infoResult.safe_versions)
                    \cup Range(infoResult.deprecated_versions) : v.version \notin {"", "None"}

(***************************************************************************)
(* Claims about the command runner                                         *)
(***************************************************************************)
\* C13: _run_command_base never raises: a call that reached the runner ends with
\* a result.  On timeout the result is success=false, returncode=-1 and a
\* stderr saying the command timed out; on an exception of the spawn or of the
\* execution (undecodable output included) it is success=false, returncode=-1
\* and the exception text as stderr; otherwise the return code is the child's
\* and success is true iff it is 0.
C13_RunCommandBaseResult ==
    /\ cmdPc = "raised" => ~cmdCall.ran
    /\ cmdPc = "done" =>
        LET o == cmdCall.outcome
            failed(text) == /\ ~cmdResult.success
                            /\ cmdResult.returncode = -1
                            /\ cmdResult.stdout = ""
                            /\ cmdResult.stderr = text
        IN /\ o.kind \in {"timeout", "spawn_error", "exit"}
           /\ o.kind = "timeout" =>
                /\ failed(cmdResult.stderr)
                /\ Contains(cmdResult.stderr, "Command timed out after")
                /\ Contains(cmdResult.stderr, ToString(cmdCall.timeout) \o " seconds")
           /\ o.kind = "spawn_error" => failed(o.text)
           /\ o.kind = "exit" =>
                IF \E k \in 1..Len(o.stdout \o o.stderr) : (o.stdout \o o.stderr)[k] = 255
                THEN failed(cmdResult.stderr) /\ Contains(cmdResult.stderr, "codec can't decode")
                ELSE /\ cmdResult.returncode = o.rc
                     /\ cmdResult.success <=> (o.rc = 0)
           /\ cmdResult.success <=> (cmdResult.returncode = 0)

C13_Witness ==
    /\ cmdPc = "done"
    /\ cmdCall.outcome.kind = "timeout"
    /\ cmdCall.timeout = 600
    /\ cmdResult = [returncode |-> -1, stdout |-> "",
                    stderr |-> "Command timed out after 600 seconds", success |-> FALSE]

\* C14: a session id that does not resolve makes a non-streaming operation
\* (get_package_info) end with a structured failure record: no exception leaves
\* the service call.
C14_SessionFailureIsARecord ==
    /\ infoPc # "raised"
    /\ (infoPc = "done" /\ cmdCall.sid # NoSession /\ ~cmdCall.ran) => infoResult # NoPackage

(***************************************************************************)
(* install_package and install_package_stream called concurrently: the     *)
(* part of each up to the spawn of its child, and the end of the command.  *)
(***************************************************************************)
InstallTimeout == 43200
InstallCommand == <<SpackCmd, "install", InstallSpec>>

\* install_package, lines 451-462: the call of _run_spack_command.
InstallPackageCall == SpackCommandCall({InstallCommand}, {InstallTimeout})

NextConcurrent ==
    \/ CreateSession
    \/ DeleteSession
    \/ InstallPackageCall
    \/ RunCommandReturns
    \/ StreamCall
    \/ StreamBuildCommand
    \/ StreamSpawn
    \/ StreamSpawnFails

SpecConcurrent == Init /\ [][NextConcurrent]_vars

(***************************************************************************)
(* A streaming install from the spawn of its child to the completion       *)
(* record, for children that write install output (marker lines, error     *)
(* lines that name a build log) with build logs on disk.                   *)
(***************************************************************************)
InstallLines ==
    {"[+] /opt/spack/pkgA-1.0-" \o TokA \o "\r",
     "==> Error: see /tmp/u/spack-stage/spack-stage-a/spack-build-out.txt",
     "==> Error: ProcessError"}

InstallOutputs(max) == UNION {[1..n -> InstallLines] : n \in 0..max}

InstallChildren ==
    {[stdout |-> o, stderr |-> e, closes |-> TRUE, exits |-> TRUE, rc |-> r] :
        o \in InstallOutputs(MaxInstallOut), e \in InstallOutputs(1), r \in {0, 1}}

\* The filesystems of these runs: the two staging directories of user u.
InstallFileSystems ==
    {fs \in FileSystems :
        /\ fs["/tmp/u/spack-stage/spack-stage-a"] \in {"nodir", "log", "unreadable"}
        /\ fs["/tmp/u/spack-stage/spack-stage-b"] \in {"nodir", "log"}
        /\ \A d \in StageDirs : ~GlobMatches(d) => fs[d] = "nodir"}

\* The state StreamStart, StreamBuildCommand and StreamSpawn lead to.
InitComplete ==
    /\ sessions = {StreamSession}
    /\ disk = {StreamSession}
    /\ cmdPc = "idle"
    /\ cmdCall = NoCall
    /\ cmdResult = NoResult
    /\ pc = "drain"
    /\ streamSid = StreamSession
    /\ streamCmd = StreamCommand(StreamSession)
    /\ events = <<StartEvent>>
    /\ queue = <<>>
    /\ all_output = <<>>
    /\ child \in InstallChildren
    /\ rd = [ch \in Channels |-> 0]
    /\ task = [ch \in Channels |-> "running"]
    /\ ticks = 0
    /\ IdleDigest
    /\ IdleFrame
    /\ IdleGit
    /\ IdleValidate
    /\ IdleCalls
    /\ IdleInfo
    /\ collPc = "idle"
    /\ full_output = ""
    /\ fsDirs \in InstallFileSystems
    /\ fsRanking \in Rankings
    /\ candidate_logs = <<>>
    /\ collNext = 1
    /\ logs = <<>>
    /\ collResult = None

NextComplete ==
    \/ ReadStdoutLine
    \/ ReadStderrLine
    \/ ReadStdoutEof
    \/ ReadStderrEof
    \/ DrainGet
    \/ DrainTimeout
    \/ StreamComplete

SpecComplete == InitComplete /\ [][NextComplete]_vars

(***************************************************************************)
(* install_package run on the child of the streaming install               *)
(***************************************************************************)
\* What communicate() returns for the lines a child wrote to a pipe.
PipeText(lines) == IF lines = <<>> THEN "" ELSE JoinLines(lines) \o "\n"

\* Mutant: the digest is looked for whatever the outcome of the run.
InstallPackageResultKeepsDigest(result, fs, ranking) ==
    [success |-> result.success,
     message |-> IF result.success THEN "Successfully installed" ELSE "Failed to install",
     install_digest |-> InstallDigest(result.stdout \o result.stderr),
     detailed_failed_log |->
         IF result.success THEN None
         ELSE CollectBuildLogsFromOutput(result.stdout \o result.stderr, fs, ranking)]

\* Lines 464-494: the OperationResult of install_package.
InstallPackageResult(result, fs, ranking) ==
    [success |-> result.success,
     message |-> IF result.success THEN "Successfully installed" ELSE "Failed to install",
     install_digest |->
         IF result.success THEN InstallDigest(result.stdout \o result.stderr) ELSE NoDigest,
     detailed_failed_log |->
         IF result.success THEN None
         ELSE CollectBuildLogsFromOutput(result.stdout \o result.stderr, fs, ranking)]

\* Lines 462-494: after the streaming install, install_package is run on a child
\* that behaves the same: the runner returns, or its timeout expires first, and
\* install_package builds its result.
InstallPackageReturns ==
    /\ installResult = NoInstallResult
    /\ pc = "done"
    /\ child # NoChild
    /\ \E result \in
            {[returncode |-> child.rc, stdout |-> PipeText(child.stdout),
              stderr |-> PipeText(child.stderr), success |-> child.rc = 0],
             TimedOutResult(InstallTimeout)} :
          installResult' = InstallPackageResult(result, fsDirs, fsRanking)
    /\ UNCHANGED <<argReq, argInstall, argStream, queryVars>>
    /\ UNCHANGED <<sessVars, cmdVars, streamVars, digestVars, infoVars, logVars, frameVars,
                   gitVars, valVars>>

NextOutcome ==
    \/ NextComplete
    \/ InstallPackageReturns

SpecOutcome == InitComplete /\ [][NextOutcome]_vars

(***************************************************************************)
(* The build-log collector alone, on every text and filesystem.            *)
(***************************************************************************)
InitLogs ==
    /\ IdleService
    /\ disk = {}
    /\ IdleDigest
    /\ IdleFrame
    /\ IdleGit
    /\ IdleValidate
    /\ IdleCalls
    /\ IdleInfo
    /\ collPc = "scan"
    /\ full_output \in LogTexts
    /\ fsDirs \in FileSystems
    /\ fsRanking \in Rankings
    /\ candidate_logs = <<>>
    /\ collNext = 1
    /\ logs = <<>>
    /\ collResult = None

NextLogs ==
    \/ CollectorScan
    \/ CollectorFallback
    \/ CollectorStatRaises
    \/ CollectorRead
    \/ CollectorReturn

SpecLogs == InitLogs /\ [][NextLogs]_vars

(***************************************************************************)
(* C15: the `complete` event of a streaming install has success = true     *)
(* exactly when the child's exit code is 0.                                *)
(***************************************************************************)
CompleteEvents == {k \in 1..Len(events) : events[k].type = "complete"}

C15_SuccessIffExitCodeZero ==
    \A k \in CompleteEvents : events[k].success <=> (child.rc = 0)

C15_Witness ==
    /\ pc = "done"
    /\ child.exits
    /\ child.rc # 0
    /\ \E k \in CompleteEvents : ~events[k].success

(***************************************************************************)
(* C17: events reach the caller in FIFO-dequeue order: the line events     *)
(* emitted, followed by the entries still queued, are the lines in the     *)
(* order in which the two readers read them (the order of all_output), so  *)
(* two lines of one channel are never emitted out of their read order,     *)
(* whatever the interleaving of the readers and the drain loop.            *)
(***************************************************************************)
IsLineEvent(e) == e.type \in {"output", "error"} /\ e \notin TerminalErrors

LineData(seq) ==
    LET sel == SelectSeq(seq, IsLineEvent)
    IN [i \in 1..Len(sel) |-> sel[i].data]

\* The index in its channel of the line an event carries.
ReadIndex(e) ==
    LET ch == IF e.type = "output" THEN "stdout" ELSE "stderr"
    IN CHOOSE i \in 1..Len(child[ch]) : child[ch][i] = e.data

C17_FifoDequeueOrder ==
    /\ LineData(events) \o LineData(queue) = all_output
    /\ LET sel == SelectSeq(events \o queue, IsLineEvent) IN
          \A i, j \in 1..Len(sel) :
              (i < j /\ sel[i].type = sel[j].type) => ReadIndex(sel[i]) < ReadIndex(sel[j])

\* The stderr line was read and emitted between two stdout lines.
C17_Witness ==
    /\ pc = "done"
    /\ Len(child.stdout) = MaxOut /\ Len(child.stderr) = 1
    /\ Len(all_output) = MaxOut + 1
    /\ events[2].type = "output" /\ events[3].type = "error" /\ events[4].type = "output"

(***************************************************************************)
(* C18: _collect_build_logs_from_output never raises, whatever the text    *)
(* and whatever the directories hold (nothing, no log, an unreadable log,  *)
(* a directory or log that vanishes between two accesses); when the text   *)
(* names no staging, build or log path and no staging directory is on disk *)
(* it returns None.                                                        *)
(***************************************************************************)
NamesNoPath(text) == ~Contains(text, "/spack-stage-") /\ ~Contains(text, "/spack-build-")
NoStagingOnDisk == \A d \in StageDirs : GlobMatches(d) => fsDirs[d] = "nodir"

C18_CollectorNeverRaises ==
    /\ collPc # "raised"
    /\ collPc = "returned" => (collResult = None \/ Len(collResult) = 1)
    /\ (collPc = "returned" /\ NamesNoPath(full_output) /\ NoStagingOnDisk) => collResult = None

\* The sort of the fallback met a staging directory that had vanished.
C18_Witness ==
    /\ collPc = "returned"
    /\ NamesNoPath(full_output)
    /\ \E d \in StageDirs : GlobMatches(d) /\ fsDirs[d] = "vanishing"
    /\ \E d \in StageDirs : fsDirs[d] = "log"
    /\ collResult = None

(***************************************************************************)
(* C19: the collector's candidate list holds each log-file path at most    *)
(* once and keeps discovery order: the explicit log-file paths first, then *)
(* the paths derived from staging directories, then those derived from     *)
(* build directories, each group in order of first occurrence in the text; *)
(* the text returned is the readable logs in that order, each after its    *)
(* path header.                                                            *)
(***************************************************************************)
\* The references of the text that lead to candidate c, by discovery group.
RefsOf(c, group) ==
    CASE group = 1 -> {r \in Range(ExplicitLogs(full_output)) : PathStr(r) = c}
      [] group = 2 -> {r \in Range(StageMatches(full_output)) : LogOfStage(r) = c}
      [] group = 3 -> {r \in Range(BuildMatches(full_output)) : LogOfStage(r) = c}

GroupOf(c) == Min({g \in 1..3 : RefsOf(c, g) # {}})
FirstAt(c) == Min({Find(full_output, r) : r \in RefsOf(c, GroupOf(c))})

InDiscoveryOrder(c1, c2) ==
    \/ GroupOf(c1) < GroupOf(c2)
    \/ GroupOf(c1) = GroupOf(c2) /\ FirstAt(c1) < FirstAt(c2)

ReadableLogs(candidates) == SelectSeq(candidates, LAMBDA c : FileState(fsDirs, c) = "log")
AllReadable(candidates) == \A k \in 1..Len(candidates) : FileState(fsDirs, candidates[k]) \in {"nodir", "nolog", "log"}

C19_CandidatesUniqueInDiscoveryOrder ==
    (collPc \in {"read", "returned"} /\ ~NoPathsFound(full_output)) =>
        /\ \A i, j \in 1..Len(candidate_logs) : i < j => candidate_logs[i] # candidate_logs[j]
        /\ \A i, j \in 1..Len(candidate_logs) :
              i < j => InDiscoveryOrder(candidate_logs[i], candidate_logs[j])
        /\ (collPc = "returned" /\ AllReadable(candidate_logs) /\ ReadableLogs(candidate_logs) # <<>>) =>
              collResult = Some(Join([k \in 1..Len(ReadableLogs(candidate_logs)) |->
                                         "===== " \o ReadableLogs(candidate_logs)[k] \o " =====\n"
                                         \o LogContent(ReadableLogs(candidate_logs)[k])], "\n\n"))

(***************************************************************************)
(* C20: for every candidate log path the text returned holds either the    *)
(* path header followed by the file's content, or a placeholder naming the *)
(* path and the read error (also for a file that is not there); no         *)
(* candidate is skipped, and None is returned only when there was no       *)
(* candidate at all.                                                       *)
(***************************************************************************)
HeaderAndContent(c) == "===== " \o c \o " =====\n" \o LogContent(c)
PlaceholderStart(c) == "===== " \o c \o " (error reading: "

C20_EveryCandidateReported ==
    collPc = "returned" =>
        /\ collResult = None => candidate_logs = <<>>
        /\ \A k \in 1..Len(candidate_logs) :
              /\ collResult # None
              /\ IF FileState(fsDirs, candidate_logs[k]) = "log"
                 THEN Contains(collResult[1], HeaderAndContent(candidate_logs[k]))
                 ELSE Contains(collResult[1], PlaceholderStart(candidate_logs[k]))

(***************************************************************************)
(* C16: the completion record of a streaming install carries the digest    *)
(* extracted from all accumulated output text whatever the exit code, and  *)
(* on failure it also carries the aggregated build log.                    *)
(***************************************************************************)
AccumulatedText == JoinLines(all_output)

C16_CompletionCarriesDigestAndLog ==
    \A k \in CompleteEvents :
        /\ events[k].install_digest = InstallDigest(AccumulatedText)
        /\ child.rc # 0 =>
              events[k].detailed_failed_log =
                  CollectBuildLogsFromOutput(AccumulatedText, fsDirs, fsRanking)

(***************************************************************************)
(* C21: when the consumer stops iterating install_package_stream before    *)
(* the terminal event, nothing terminates the child: the step that ends    *)
(* the generator leaves the child and its reader tasks as they are, and    *)
(* no later step of this code touches the child.                           *)
(***************************************************************************)
C21_ConsumerGoneChildLeftRunning ==
    [][(pc' = "abandoned") => (child' = child /\ (pc # "abandoned" => task' = task))]_vars

\* The consumer has gone; the child neither exits nor closes its channels and
\* both readers are still running, one of them having read a line since.
C21_Witness ==
    /\ pc = "abandoned"
    /\ child # NoChild
    /\ ~child.exits /\ ~child.closes
    /\ \A ch \in Channels : task[ch] = "running"
    /\ Len(queue) > 0

(***************************************************************************)
(* C22: no per-session locking is applied: whether a command or a          *)
(* streaming install goes ahead to spawn its child depends only on its     *)
(* session being resolvable, never on another command running on the same  *)
(* session, so two installs on one session can execute at the same time.   *)
(***************************************************************************)
C22_NoPerSessionLocking ==
    [][/\ (pc = "started" /\ pc' \in {"spawn", "done"}) =>
             (pc' = "spawn" <=> ~RaisesValueError(sessions, disk, streamSid))
       /\ (cmdPc = "idle" /\ cmdPc' \in {"running", "raised"}) =>
             (cmdPc' = "running" <=> ~RaisesValueError(sessions, disk, cmdCall'.sid))]_vars

\* Two installs of one session with their children running at the same time.
C22_Witness ==
    /\ cmdPc = "running"
    /\ pc = "drain"
    /\ child # NoChild
    /\ streamSid # NoSession
    /\ cmdCall.sid = streamSid
    /\ cmdCall.base = InstallCommand

(***************************************************************************)
(* C23: once a session has been resolved for a command, its context stays  *)
(* present until the command finishes: while a command or a streaming      *)
(* install runs in a session, the session is registered and its directory  *)
(* exists; a concurrent delete_session cannot remove it.                   *)
(***************************************************************************)
SessionPresent(sid) == sid \in sessions /\ sid \in disk

C23_SessionPresentWhileCommandRuns ==
    /\ (cmdPc = "running" /\ cmdCall.sid # NoSession) => SessionPresent(cmdCall.sid)
    /\ (pc \in {"spawn", "drain", "wait"} /\ streamSid # NoSession) => SessionPresent(streamSid)

(***************************************************************************)
(* C24: the collector's filesystem fallback does not tell sessions apart:  *)
(* when an install fails with no staging path in its output, the failure   *)
(* log holds the readable build log of every staging directory on disk,    *)
(* the ones made by another session's install included.                    *)
(***************************************************************************)
C24_FallbackIgnoresSession ==
    \A k \in CompleteEvents :
        (child.rc # 0 /\ NamesNoPath(AccumulatedText)) =>
            \A d \in GlobDirs :
                fsDirs[d] = "log" =>
                    /\ events[k].detailed_failed_log # None
                    /\ Contains(events[k].detailed_failed_log[1], HeaderAndContent(LogOfStage(d)))

\* The install of s1 failed without naming a path and has no staging directory of
\* its own; its failure log is the build log of a directory of s2.
C24_Witness ==
    /\ pc = "done"
    /\ streamSid = StreamSession
    /\ child.rc # 0
    /\ NamesNoPath(AccumulatedText)
    /\ \A d \in GlobDirs : StageOwner(d) = StreamSession => fsDirs[d] = "nodir"
    /\ \E k \in CompleteEvents, d \in GlobDirs :
          /\ StageOwner(d) # StreamSession
          /\ events[k].detailed_failed_log = Some(HeaderAndContent(LogOfStage(d)))

(***************************************************************************)
(* C25: a Variants continuation line beginning with "when " sets the       *)
(* conditional expression of the variant being accumulated and starts no   *)
(* new variant; with no variant being accumulated it changes nothing.      *)
(***************************************************************************)
IsWhenLine(l) == StartsWith(l, "when ")
IsNamedStart(l) == ~IsWhenLine(l) /\ HasBracketedSpan(l) /\ NameBeforeBrackets(l) # ""

\* The non-blank stripped lines of the (one) Variants section of the text.
VariantSectionLines ==
    IF Len(infoLines) >= 2 /\ infoLines[2] = "Variants:"
    THEN SelectSeq(SectionLines(1), LAMBDA l : l # "")
    ELSE <<>>

\* The conditional the lines give the variant started at index s: the last
\* "when " line before the next variant starts, None when there is none.
ConditionalOf(ls, s) ==
    LET next == Min({j \in (s + 1)..Len(ls) : IsNamedStart(ls[j])} \cup {Len(ls) + 1})
        whens == {j \in (s + 1)..(next - 1) : IsWhenLine(ls[j])}
    IN IF whens = {} THEN None ELSE Some(ls[Max(whens)])

C25_WhenSetsConditional ==
    (infoPc = "done" /\ infoReq.success) =>
        LET ls == VariantSectionLines IN
        /\ Len(infoResult.variants) = Len(VariantsOf(SelectSeq(ls, LAMBDA l : ~IsWhenLine(l)), <<>>))
        /\ \A s \in 1..Len(ls) :
              IsNamedStart(ls[s]) =>
                  \E k \in 1..Len(infoResult.variants) :
                      /\ infoResult.variants[k].name = NameBeforeBrackets(ls[s])
                      /\ infoResult.variants[k].conditional = ConditionalOf(ls, s)

(***************************************************************************)
(* C26. The dependency sections of get_package_info                        *)
(***************************************************************************)
\* The header a line of the text belongs to: the nearest line before it that is
\* neither indented nor blank ("" when there is none).
OwnerOf(k) ==
    LET heads == {j \in 1..(k - 1) : ~IsContinuation(infoLines[j])}
    IN IF heads = {} THEN "" ELSE infoLines[Max(heads)]

\* The whitespace-separated tokens of one continuation line; "None" has none.
TokensOfLine(l) == IF Strip(l) = "None" THEN <<>> ELSE SplitWs(Strip(l))

\* The tokens of the continuation lines under `header`, from line k on, in input order
RECURSIVE TokensUnder(_, _)
TokensUnder(header, k) ==
    IF k > Len(infoLines) THEN <<>>
    ELSE (IF IsContinuation(infoLines[k]) /\ StartsWith(OwnerOf(k), header)
          THEN TokensOfLine(infoLines[k]) ELSE <<>>) \o TokensUnder(header, k + 1)

FieldsOf(header) ==
    CASE header = "Description:" -> {"description"}
      [] header = "Homepage:" -> {"homepage"}
      [] header = "Preferred version:" -> {"preferred_version"}
      [] header = "Safe versions:" -> {"safe_versions"}
      [] header = "Deprecated versions:" -> {"deprecated_versions"}
      [] header = "Variants:" -> {"variants"}
      [] header = "Build Dependencies:" -> {"build_dependencies", "dependencies"}
      [] header = "Link Dependencies:" -> {"link_dependencies", "dependencies"}
      [] header = "Run Dependencies:" -> {"run_dependencies", "dependencies"}
      [] header = "Licenses:" -> {"licenses"}
      [] OTHER -> {}

\* The value of one field; `dependencies` is a list in no particular order.
FieldValue(package, field) ==
    IF field = "dependencies" THEN <<Range(package.dependencies)>> ELSE <<package[field]>>

SameField(field) == FieldValue(infoResult, field) = FieldValue(earlier, field)

\* C27: lines matching no known section header are ignored, and a missing or
\* renamed section leaves only its own field at the default: every other field
\* is parsed exactly as it is when that section is present, and the parse does
\* not fail.
C27_OtherFieldsUnaffected ==
    (infoPc = "done" /\ edit # NoEdit) =>
        \A field \in (DOMAIN infoResult) \ FieldsOf(edit.header) : SameField(field)

(***************************************************************************)
(* C28. The git steps of create_pull_request                               *)
(***************************************************************************)
\* The commands run so far are the first steps of the fixed order.
RunInFixedOrder ==
    /\ Len(gitRun) <= Len(GitSteps)
    /\ \A i \in 1..Len(gitRun) :
          gitRun[i].step = GitSteps[i] /\ gitRun[i].argv = GitCommand(GitSteps[i], gitReq)

FailedSteps == {i \in 1..Len(gitRun) : ~gitRun[i].success}

\* No command is run after one that failed.
StopsAtFirstFailure == \A i \in FailedSteps : i = Len(gitRun)

\* The step a failure message is about
StepOfMessage(message) ==
    IF StartsWith(message, "Failed to clone repository: ") THEN "clone"
    ELSE IF StartsWith(message, "Failed to create branch: ") THEN "checkout"
    ELSE IF StartsWith(message, "Branch ") /\ Contains(message, "already exists. ")
    THEN "checkout"
    ELSE IF StartsWith(message, "Failed to add changes: ") THEN "add"
    ELSE IF StartsWith(message, "Failed to commit changes: ") THEN "commit"
    ELSE IF StartsWith(message, "Failed to push branch: ") THEN "push"
    ELSE IF StartsWith(message, "Branch ") /\ Contains(message, "already exists on remote")
    THEN "push"
    ELSE IF StartsWith(message, "Git authentication failed") THEN "push"
    ELSE ""

\* What git_commands may list: the commands run so far, as displayed, and the copy
ListableCommands ==
    {Displayed(gitRun[i].step, gitReq) : i \in 1..Len(gitRun)} \cup {CopyDisplayed(gitReq)}

\* The result returned after a failed step
FailureReported ==
    (gitPc = "returned" /\ FailedSteps # {}) =>
        /\ ~gitResult.success
        /\ StepOfMessage(gitResult.message) = gitRun[Min(FailedSteps)].step
        /\ Range(gitResult.git_commands) \subseteq ListableCommands
        /\ (~gitRun[1].success => Len(gitResult.git_commands) = 1)

\* success=true and the PR URL come together, and only after a successful push
SuccessOnlyAfterPush ==
    gitPc = "returned" =>
        /\ gitResult.success <=> gitResult.pr_url # None
        /\ gitResult.success =>
              /\ Len(gitRun) = Len(GitSteps)
              /\ gitRun[Len(gitRun)].step = "push"
              /\ gitRun[Len(gitRun)].success

\* C28: create_pull_request runs its git steps in the fixed order clone,
\* checkout -b, add, status, commit, push and stops at the first failing step: no
\* later git command is executed after a failed one, the result has success=false
\* with that step's message and git_commands listing only the commands attempted
\* so far (exactly one after a failed clone), and success=true with a PR URL is
\* returned only after push succeeded.
C28_StepsInOrderStopAtFirstFailure ==
    /\ RunInFixedOrder
    /\ StopsAtFirstFailure
    /\ FailureReported
    /\ SuccessOnlyAfterPush

(***************************************************************************)
(* C29. The clone directory after create_pull_request                      *)
(***************************************************************************)
CloneSucceeded == Len(gitRun) >= 1 /\ gitRun[1].success

\* C29: on every failure path of create_pull_request taken after the clone step
\* (failed checkout, add, commit or push, "no changes to commit", or an
\* unexpected exception) the clone directory no longer exists when the result is
\* returned, as it does not after success.
C29_CloneDirRemovedOnReturn ==
    (gitPc = "returned" /\ CloneSucceeded) => ~cloneDir

(***************************************************************************)
(* C30. The events of validate_package_stream                              *)
(***************************************************************************)
\* The terminal results: the completion, and the errors that are not stderr lines
IsValidationTerminal(e) ==
    \/ e.type = "complete"
    \/ e.type = "error" /\ (StartsWith(e.data, "Session error: ")
                               \/ StartsWith(e.data, "Validation failed: "))

ValidationEnded == valPc \in {"done", "raised"}

\* C30: validate_package_stream, for every combination of inputs (including a
\* package_type outside {python, r, other} with no installation digest, and an
\* unresolvable session id), emits exactly one `start` event first and ends with
\* exactly one terminal `complete` or `error` event; it never ends by raising
\* after `start`.
C30_StartThenOneTerminalNeverRaises ==
    /\ valPc # "idle" => (valEvents # <<>> /\ IsStart(valEvents[1]))
    /\ Count(valEvents, IsStart) <= 1
    /\ \A i \in 1..(Len(valEvents) - 1) : ~IsValidationTerminal(valEvents[i])
    /\ valPc # "raised"
    /\ ValidationEnded =>
          /\ IsValidationTerminal(Last(valEvents))
          /\ Count(valEvents, IsValidationTerminal) = 1

(***************************************************************************)
(* C31. A read that fails inside a reader task                             *)
(***************************************************************************)
ReaderFailed == \E ch \in Channels : task[ch] = "failed"

\* C31: if reading from a channel fails inside a reader task of
\* install_package_stream (undecodable bytes), the stream terminates with one
\* `error` event: the failure is never dropped so that a `complete` event is
\* built from truncated output.
C31_ReaderFailureEndsWithError ==
    (pc = "done" /\ ReaderFailed) =>
        /\ Last(events) = FailedEvent
        /\ Count(events, IsComplete) = 0

(***************************************************************************)
(* C32. The drain loop ends                                                *)
(***************************************************************************)
ReadersAtEof == \A ch \in Channels : task[ch] = "done"

\* The loop is left only by a poll that found both reader tasks done.
DrainLeftOnlyWhenReadersDone ==
    (pc = "drain" /\ pc' = "wait") => (\A ch \in Channels : task[ch] # "running")

\* C32: under fair scheduling, once both reader tasks of install_package_stream
\* have reached end-of-stream and the child has exited, the drain loop exits
\* after finitely many polls and the `complete` event is emitted; the loop never
\* exits while a reader is still running.
C32_DrainLoopEndsWithComplete ==
    /\ [][DrainLeftOnlyWhenReadersDone]_vars
    /\ (pc = "drain" /\ ReadersAtEof /\ child.exits)
           ~> (pc = "done" /\ IsComplete(Last(events)))

\* Both readers at end of stream after four lines, at least one poll timed out,
\* and the completion is the last event.
C32_Witness ==
    /\ pc = "done"
    /\ ReadersAtEof
    /\ child.exits
    /\ Len(child.stdout) = MaxOut /\ Len(child.stderr) = MaxErr
    /\ ticks >= 1
    /\ queue = <<>>
    /\ IsComplete(Last(events))
    /\ Len(events) = MaxOut + MaxErr + 2

(***************************************************************************)
(* C33. The line scan terminates                                           *)
(***************************************************************************)
\* One pass of the outer loop: from the test of line 1260 to the increment of
\* line 1428.
OuterPass == infoPc = "parse" /\ passes' = passes + 1

\* C33: the line scan of get_package_info terminates: each outer-loop iteration
\* leaves the cursor strictly greater than it found it, and the number of outer
\* iterations never exceeds the number of lines.
C33_ScanAdvancesAndIsBounded ==
    /\ [][OuterPass => lineNo' > lineNo]_vars
    /\ [](passes <= Len(infoLines))

\* A finished scan of three lines in which a section took its continuation line
\* in the same pass: fewer passes than lines, cursor at the end.
C33_Witness ==
    /\ infoPc = "done"
    /\ Len(infoLines) = MaxInfoLines
    /\ lineNo >= Len(infoLines)
    /\ consumed # {}
    /\ passes >= 2
    /\ passes < Len(infoLines)

(***************************************************************************)
(* C34. The reported digest with several marker lines                      *)
(***************************************************************************)
\* A marker line whose path has a final segment after a "/": the lines the
\* pattern of line 194 matches.
IsPathMarkerLine(line) ==
    /\ IsMarkerLine(line)
    /\ Len(SplitOn(MarkerPath(line), "/")) > 1
    /\ Len(SplitOn(MarkerPath(line), "/")[1]) + 1 < Len(MarkerPath(line))
    /\ SplitOn(MarkerPath(line), "/")[Len(SplitOn(MarkerPath(line), "/"))] # ""

PathMarkerLinesOf(text) == SelectSeq(TextLines(text), IsPathMarkerLine)

LastPathMarkerLine(text) == PathMarkerLinesOf(text)[Len(PathMarkerLinesOf(text))]

\* C34: for install output containing several marker lines, the digest reported
\* by install_package and install_package_stream (primary extractor, then the
\* robust fallback) is never the token of a marker line other than the last one
\* of the text: when the last marker's token is invalid the reported digest is
\* absent.
C34_DigestOnlyFromLastMarker ==
    (digPc = "done" /\ Len(PathMarkerLinesOf(digText)) > 1) =>
        /\ digInstall \in {NoDigest, CandidateOf(LastPathMarkerLine(digText))}
        /\ ~IsValidToken(CandidateOf(LastPathMarkerLine(digText))) => digInstall = NoDigest

(***************************************************************************)
(* C35. The streaming and the non-streaming install run the same command   *)
(***************************************************************************)
BothVectorsBuilt == argInstall # NotCalled /\ argStream # NotCalled

\* C35: for the same package name, version, variants and session id, the
\* streaming and the non-streaming install pass the same argument vector to the
\* child, both without a session and with a resolvable session.
C35_SameArgumentVector ==
    (/\ BothVectorsBuilt
     /\ argReq.session_id # NoSession => SessionResolvable(sessions, disk, argReq.session_id))
    => /\ argInstall = argStream
       /\ argInstall \notin {ValueErrorRaised, SessionErrorYielded}
       /\ argInstall[Len(argInstall)] = InstallPackageSpec(argReq)

\* Both installs of a versioned package with two variants in a session that is
\* recovered from the filesystem.
C35_Witness ==
    /\ BothVectorsBuilt
    /\ argReq = [package_name |-> "zlib", version |-> "1.0.0",
                 variants |-> <<"+shared", "~pic">>, session_id |-> "s1"]
    /\ argStream = SingularityPrefix("s1") \o <<"install", "zlib@1.0.0 +shared ~pic">>
    /\ "s2" \notin disk

(***************************************************************************)
(* C36. Digest and failure log exclude each other                          *)
(***************************************************************************)
DigestOrLogByOutcome(r) ==
    /\ r.install_digest # NoDigest => r.success
    /\ r.detailed_failed_log # None => ~r.success
    /\ ~(r.install_digest # NoDigest /\ r.detailed_failed_log # None)

\* C36: in the result of install_package and in the `complete` event of
\* install_package_stream the digest is present only when success is true, the
\* aggregated failure log is present only when success is false, and never both.
C36_DigestXorFailureLog ==
    /\ installResult # NoInstallResult => DigestOrLogByOutcome(installResult)
    /\ \A k \in CompleteEvents : DigestOrLogByOutcome(events[k])

\* A failed install whose output holds a valid marker line and names a log that
\* is there: both results carry the log and no digest.
C36_Witness ==
    /\ pc = "done"
    /\ child.rc = 1
    /\ InstallDigest(JoinLines(all_output)) = TokA
    /\ ~installResult.success
    /\ installResult.detailed_failed_log # None
    /\ installResult.install_digest = NoDigest
    /\ \E k \in CompleteEvents :
          events[k].detailed_failed_log # None /\ events[k].install_digest = NoDigest

(***************************************************************************)
(* C37. The retry outside the session                                      *)
(***************************************************************************)
\* C37: get_package_checksums and the versions query of get_package_versions
\* re-run their command at most once: a retry happens only when a session id was
\* given, the first run failed and its stderr contains 'not found'; the retry
\* runs without session isolation; a failed retry is not retried again and is
\* returned as a structured failure.
C37_AtMostOneRetryOutsideSession ==
    /\ Len(runs) <= 2
    /\ Len(runs) = 2 =>
          /\ queryReq.session_id # NoSession
          /\ runs[1].session_id = queryReq.session_id
          /\ ~runs[1].result.success
          /\ Contains(runs[1].result.stderr, "not found")
          /\ runs[2].session_id = NoSession
          /\ runs[2].argv = QueryCommand(queryReq)
    /\ (queryPc = "returned" /\ ~runs[Len(runs)].result.success) =>
          queryResult = QueryFailure(queryReq, runs[Len(runs)].result)

\* A checksum query in session s1 that did not find the package there and did
\* not find it outside either.
C37_Witness ==
    /\ queryPc = "returned"
    /\ queryReq.kind = "checksums"
    /\ queryReq.session_id = "s1"
    /\ Len(runs) = 2
    /\ runs[1].argv = SingularityPrefix("s1") \o <<"checksum", "-b", "zlib">>
    /\ ~runs[2].result.success
    /\ ~queryResult.success
    /\ queryResult.error = "==> Error: Package 'zlib' not found."

(***************************************************************************)
(* C38. A deleted session stays deleted                                    *)
(***************************************************************************)
\* delete_session(sid) returned true in this step: only it removes a registry
\* entry.
DeleteReturnedTrue(sid) == sid \in sessions /\ sid \notin sessions'

\* The id resolves after this step and did not before.
BecomesResolvable(sid) ==
    ~SessionResolvable(sessions, disk, sid) /\ SessionResolvable(sessions', disk', sid)

\* C38: after delete_session(id) returns true the session is no longer
\* resolvable: its registry entry is gone, get_session_dir(id) returns none and
\* get_singularity_command_prefix(id) fails, and it stays so under every
\* operation that follows, until create_session makes that id again.
C38_DeletedSessionNotResolvable ==
    [][\A sid \in SessionIds :
          /\ DeleteReturnedTrue(sid) =>
                /\ GetSessionDir(sessions', disk', sid) = NoneDir
                /\ RaisesValueError(sessions', disk', sid)
          /\ BecomesResolvable(sid) => (sid \in sessions' /\ sid \in disk' /\ sid \notin disk)
      ]_vars

====
